---------------------------- MODULE Spec2Model ----------------------------
(***************************************************************************)
(* Model of the spatial analytics engine of the SBMM planning tool:        *)
(* ContourModule (src/js/app.js), CrossSectionModule and AnalysisModule    *)
(* (src/js/crosssection.js) and PolygonModule (src/unnamed/part_000).      *)
(*                                                                         *)
(* Coordinates.  A location is a record [lat, lon] of integers counted in  *)
(* ticks of 1/100000 degree.  AppConfig.coordConversion is not among the   *)
(* source files; it is modelled by MetersPerDegLat, MetersPerDegLon and    *)
(* the rational FeetToMetersNum / FeetToMetersDen, so that one tick of     *)
(* latitude is 1 m and one tick of longitude is 3/4 m.  Every distance is  *)
(* compared through its square, as an exact rational; no floating-point    *)
(* rounding is modelled.                                                   *)
(***************************************************************************)
EXTENDS Integers, Sequences, FiniteSets

VARIABLES
    hullPoints,     \* ContourModule: the points handed to computeConvexHull
    hullOut,        \* the hull returned by computeConvexHull
    hullInside,     \* pointInConvexHull of every input point against hullOut
    hullPc,         \* "input" | "hull" | "tested" ("idle": not exercised)
    idwPoints,      \* ContourModule: the samples handed to computeIDW
    idwQuery,       \* the raster cell centre computeIDW is asked about
    idwOut,         \* the value returned, an exact rational [num, den]
    idwPc,          \* "input" | "done" ("idle": not exercised)
    colThresh,      \* ContourModule: the threshold handed to valueToColor
    colValue,       \* the value handed to valueToColor, a rational [num, den]
    colOut,         \* the colour returned
    colPc,          \* "input" | "done" ("idle": not exercised)
    geoVerts,       \* PolygonModule: the vertex list handed to a geometry function
    geoPoint,       \* the location pointInPolygon is asked about
    geoInside,      \* the answer of pointInPolygon
    geoArea,        \* the area calculateAreaSqFt returned, a rational [num, den]
    geoPc,          \* "input" | "done" ("idle": not exercised)
    layPositions,   \* CrossSectionModule: the columns handed to resolveOverlaps
    layOut,         \* the positions resolveOverlaps returned
    layPc,          \* "input" | "done" ("idle": not exercised)
    bhHull,         \* ContourModule: the hull handed to bufferConvexHull
    bhMeters,       \* the bufferMeters argument
    bhOut,          \* the polygon bufferConvexHull returned
    bhPc,           \* "input" | "done" ("idle": not exercised)
    pendingPoint,   \* AppState.pendingPoint; NoPending is null
    undoStack,      \* AppState.undoStack
    redoStack,      \* AppState.redoStack
    plannedMarkers, \* the markers on AppState.layers.planned: [ref, pointId]
    storedPoints,   \* localStorage item sbmm_planned_points, parsed
    nextRef,        \* the identity the next point object created will get
    samples2025,    \* AppState.data.samples2025
    eaSamples,      \* AppState.data.eaSamples
    testPits2025,   \* AppState.data.testPits2025
    soilBorings2025, \* AppState.data.soilBorings2025
    currentAnalyte, \* AppState.currentAnalyte
    plannedPoints,  \* AppState.plannedPoints
    gridSizeFt,     \* AppState.gridSizeFt
    includePlannedInGaps, \* AppState.includePlannedInGaps
    gapsVisible,    \* AppState.gapsVisible
    gapLayer,       \* AppState.gapLayer: [on, cells]; on = FALSE is null
    hotzoneVisible, \* AppState.hotzoneVisible
    hotzoneLayer,   \* AppState.hotzoneLayer: [on, cells]
    contourVisible, \* AppState.contourVisible
    contourLayer,   \* AppState.contourLayer: [on, points, ...]; on = FALSE is null
    bufferVisible,  \* AppState.bufferVisible
    bufferRadiusFt, \* AppState.bufferRadiusFt
    bufferLayer,    \* AppState.bufferLayer: [on, circles]
    currentMode,    \* AppState.currentMode
    measureMode,    \* AppState.measureMode
    measurePoints,  \* AppState.measurePoints (measureMarkers holds one marker each)
    measureLine,    \* AppState.measureLine is drawn
    measureTimers,  \* the pending auto-clear timeouts, oldest first
    nextMarker,     \* the next circle marker object of the measurement tool
    crossSectionMode, \* AppState.crossSectionMode
    initialized,    \* CrossSectionModule: init has run
    active,         \* CrossSectionModule: the tool is on
    corridorWidthFt, \* CrossSectionModule: corridor half-width in feet, or NaN
    transectPoints, \* CrossSectionModule: the endpoints clicked so far
    transectMarkers, \* the positions of the circle markers on the map
    transectLine,   \* the polyline is drawn
    corridorPolygon, \* the corridor drawn: [on, a, b, halfWidthFt]
    savedMode,      \* CrossSectionModule: AppState.currentMode before activation
    panelShown,     \* the panel element is displayed
    panelCanvas,    \* what renderPanel last drew: [samples, analyte]
    statusMsg,      \* the status bar text; "hidden" when not displayed
    lastSamples,    \* CrossSectionModule.lastSamples; <<>> is null
    collected,      \* the sequence the last call of collectSamples returned
    polygonMode,    \* AppState.polygonMode
    polygonVertices, \* AppState.polygonVertices
    tempVertexMarkers, \* PolygonModule: in-progress vertex markers (positions)
    tempPolyline,   \* PolygonModule: in-progress outline; <<>> is null
    polygonFinal,   \* the finished polygon on AppState.polygonLayer; <<>> is none
    statsPanel      \* PolygonModule: [shown, results]

hullVars == <<hullPoints, hullOut, hullInside, hullPc>>

idwVars == <<idwPoints, idwQuery, idwOut, idwPc>>

colVars == <<colThresh, colValue, colOut, colPc>>

geoVars == <<geoVerts, geoPoint, geoInside, geoArea, geoPc>>

layVars == <<layPositions, layOut, layPc>>

bhVars == <<bhHull, bhMeters, bhOut, bhPc>>

timerVars == <<measureTimers, nextMarker>>

planVars == <<pendingPoint, undoStack, redoStack, plannedMarkers, storedPoints,
              nextRef>>

dataVars == <<samples2025, eaSamples, testPits2025, soilBorings2025,
              currentAnalyte, plannedPoints>>

anaVars == <<gridSizeFt, includePlannedInGaps, gapsVisible, gapLayer,
             hotzoneVisible, hotzoneLayer>>

conVars == <<contourVisible, contourLayer>>

bufVars == <<bufferVisible, bufferRadiusFt, bufferLayer>>

uiVars == <<currentMode, measureMode, measurePoints, measureLine,
            crossSectionMode>>

csVars == <<initialized, active, corridorWidthFt, transectPoints,
            transectMarkers, transectLine, corridorPolygon, savedMode,
            panelShown, panelCanvas, statusMsg, lastSamples, collected>>

polyVars == <<polygonMode, polygonVertices, tempVertexMarkers, tempPolyline,
              polygonFinal, statsPanel>>

vars == <<hullVars, idwVars, colVars, geoVars, layVars, bhVars, planVars, timerVars, dataVars, anaVars, conVars, bufVars,
          uiVars, csVars, polyVars>>

\* the components that exercise one function, and the planning state that
\* the analysis tools never write
funVars == <<hullVars, idwVars, colVars, geoVars, layVars, bhVars>>

unitVars == <<funVars, planVars, timerVars>>

\* what a step of one component leaves alone
appVars == <<dataVars, anaVars, conVars, bufVars, uiVars, csVars, polyVars>>

HullOnly == UNCHANGED <<idwVars, colVars, geoVars, layVars, bhVars, planVars, timerVars, appVars>>

IdwOnly == UNCHANGED <<hullVars, colVars, geoVars, layVars, bhVars, planVars, timerVars, appVars>>

ColOnly == UNCHANGED <<hullVars, idwVars, geoVars, layVars, bhVars, planVars, timerVars, appVars>>

GeoOnly == UNCHANGED <<hullVars, idwVars, colVars, layVars, bhVars, planVars, timerVars, appVars>>

LayOnly == UNCHANGED <<hullVars, idwVars, colVars, geoVars, bhVars, planVars, timerVars, appVars>>

BhOnly == UNCHANGED <<hullVars, idwVars, colVars, geoVars, layVars, planVars, timerVars, appVars>>

AnaOnly == UNCHANGED <<unitVars, dataVars, conVars, bufVars, uiVars, csVars,
                       polyVars>>

ConOnly == UNCHANGED <<unitVars, dataVars, anaVars, bufVars, uiVars, csVars,
                       polyVars>>

BufOnly == UNCHANGED <<unitVars, dataVars, anaVars, conVars, uiVars, csVars,
                       polyVars>>

PolyOnly == UNCHANGED <<unitVars, dataVars, anaVars, conVars, bufVars, uiVars,
                        csVars>>

\* CrossSectionModule also acts on the mode and measurement state
CsOnly == UNCHANGED <<unitVars, dataVars, anaVars, conVars, bufVars, polyVars>>

(***************************************************************************)
(* Generic helpers                                                         *)
(***************************************************************************)
Null == -1

\* the number NaN, as a corridor width
NaN == -2

Front(s) == SubSeq(s, 1, Len(s) - 1)

Reverse(s) == [i \in 1..Len(s) |-> s[Len(s) + 1 - i]]

SeqsUpTo(S, lo, hi) == UNION {[1..n -> S] : n \in lo..hi}

Range(s) == {s[i] : i \in 1..Len(s)}

(***************************************************************************)
(* AppConfig.coordConversion (config source not available)                 *)
(***************************************************************************)
TicksPerDeg == 100000

MetersPerDegLat == 100000

MetersPerDegLon == 75000

FeetToMetersNum == 3

FeetToMetersDen == 10

(***************************************************************************)
(* ContourModule: convex hull (Andrew's monotone chain)                    *)
(***************************************************************************)
MaxHullCoord == 2

MaxHullPts == 3

HullGrid == [lat : 0..MaxHullCoord, lon : 0..MaxHullCoord]

cross2D(O, A, B) ==
    (A.lon - O.lon) * (B.lat - O.lat) - (A.lat - O.lat) * (B.lon - O.lon)

\* the comparator of points.slice().sort(...): a sorts before b
HullBefore(a, b) ==
    IF a.lon # b.lon THEN a.lon < b.lon ELSE a.lat < b.lat

RECURSIVE InsertSorted(_, _)
InsertSorted(sorted, p) ==
    IF sorted = <<>> THEN <<p>>
    ELSE IF HullBefore(p, sorted[Len(sorted)])
         THEN InsertSorted(Front(sorted), p) \o <<sorted[Len(sorted)]>>
         ELSE sorted \o <<p>>

RECURSIVE SortByLonLat(_)
SortByLonLat(points) ==
    IF points = <<>> THEN <<>>
    ELSE InsertSorted(SortByLonLat(Front(points)), points[Len(points)])

\* the inner while loop: pop while the last two and p make no left turn
RECURSIVE PopNonLeft(_, _)
PopNonLeft(chain, p) ==
    IF Len(chain) >= 2 /\ cross2D(chain[Len(chain) - 1], chain[Len(chain)], p) <= 0
    THEN PopNonLeft(Front(chain), p)
    ELSE chain

RECURSIVE BuildChain(_, _, _)
BuildChain(sorted, i, chain) ==
    IF i > Len(sorted) THEN chain
    ELSE BuildChain(sorted, i + 1, PopNonLeft(chain, sorted[i]) \o <<sorted[i]>>)

computeConvexHull(points) ==
    IF Len(points) < 3 THEN points
    ELSE LET sorted == SortByLonLat(points)
             lower  == BuildChain(sorted, 1, <<>>)
             upper  == BuildChain(Reverse(sorted), 1, <<>>)
         IN  Front(lower) \o Front(upper)

pointInConvexHull(lat, lon, hull) ==
    LET n == Len(hull)
    IN  /\ n >= 3
        /\ \A i \in 1..n :
              LET j == (i % n) + 1
              IN  (hull[j].lon - hull[i].lon) * (lat - hull[i].lat)
                    - (hull[j].lat - hull[i].lat) * (lon - hull[i].lon) >= 0

HullInit ==
    /\ hullPoints \in SeqsUpTo(HullGrid, 3, MaxHullPts)
    /\ hullOut = <<>>
    /\ hullInside = <<>>
    /\ hullPc = "input"

\* generateContour, app.js:767: var hull = computeConvexHull(points)
ComputeHull ==
    /\ hullPc = "input"
    /\ hullOut' = computeConvexHull(hullPoints)
    /\ hullPc' = "hull"
    /\ UNCHANGED <<hullPoints, hullInside>>
    /\ HullOnly

\* containsPoint applied to every input point
TestHullMembers ==
    /\ hullPc = "hull"
    /\ hullInside' = [i \in 1..Len(hullPoints) |->
                        pointInConvexHull(hullPoints[i].lat, hullPoints[i].lon, hullOut)]
    /\ hullPc' = "tested"
    /\ UNCHANGED <<hullPoints, hullOut>>
    /\ HullOnly

HullIdle ==
    /\ hullPoints = <<>>
    /\ hullOut = <<>>
    /\ hullInside = <<>>
    /\ hullPc = "idle"

HullNext == ComputeHull \/ TestHullMembers

(***************************************************************************)
(* ContourModule: inverse-distance weighting                               *)
(***************************************************************************)
RECURSIVE GCD(_, _)
GCD(a, b) == IF b = 0 THEN a ELSE GCD(b, a % b)

\* metres per tick as fractions LatW / TickW and LonW / TickW
ConvScale == GCD(GCD(MetersPerDegLat, MetersPerDegLon), TicksPerDeg)

LatW == MetersPerDegLat \div ConvScale

LonW == MetersPerDegLon \div ConvScale

TickW == TicksPerDeg \div ConvScale

MaxIdwLat == 1

MaxIdwLon == 2

MaxIdwPts == 2

IdwValues == {1, 4, 9}

IdwGrid == [lat : 0..MaxIdwLat, lon : 0..MaxIdwLon]

IdwSamples == [lat : 0..MaxIdwLat, lon : 0..MaxIdwLon, value : IdwValues]

\* distSq of computeIDW in units of 1 / TickW^2 square metres
IdwDistSq(lat, lon, p) ==
    LET dLat == (lat - p.lat) * LatW
        dLon == (lon - p.lon) * LonW
    IN  dLat * dLat + dLon * dLon

\* The loop of computeIDW.  With P the product of the scaled squared
\* distances seen so far, numerator = TickW^2 * N / P and
\* denominator = TickW^2 * D / P; oneMetreSq is 1.0 in the scaled unit.
RECURSIVE IdwLoop(_, _, _, _, _, _, _, _)
IdwLoop(lat, lon, points, i, N, D, P, oneMetreSq) ==
    IF i > Len(points)
    THEN IF D > 0 THEN [num |-> N, den |-> D] ELSE [num |-> 0, den |-> 1]
    ELSE LET distSq == IdwDistSq(lat, lon, points[i])
         IN  IF distSq < oneMetreSq
             THEN [num |-> points[i].value, den |-> 1]
             ELSE IdwLoop(lat, lon, points, i + 1,
                          N * distSq + points[i].value * P,
                          D * distSq + P,
                          P * distSq, oneMetreSq)

\* mutant: only an exactly coincident sample takes the shortcut
computeIDW_ZeroOnly(lat, lon, points) ==
    IdwLoop(lat, lon, points, 1, 0, 0, 1, 1)

\* mutant: the weights are summed into the numerator only (denominator
\* counts the samples)
RECURSIVE IdwCountLoop(_, _, _, _, _, _)
IdwCountLoop(lat, lon, points, i, N, P) ==
    IF i > Len(points)
    THEN [num |-> N * TickW * TickW, den |-> P * Len(points)]
    ELSE LET distSq == IdwDistSq(lat, lon, points[i])
         IN  IF distSq < TickW * TickW
             THEN [num |-> points[i].value, den |-> 1]
             ELSE IdwCountLoop(lat, lon, points, i + 1,
                               N * distSq + points[i].value * P, P * distSq)

computeIDW_CountDenominator(lat, lon, points) ==
    IdwCountLoop(lat, lon, points, 1, 0, 1)

computeIDW(lat, lon, points) ==
    IdwLoop(lat, lon, points, 1, 0, 0, 1, TickW * TickW)

NoValue == [num |-> 0, den |-> 1]

IdwInit ==
    /\ idwPoints \in SeqsUpTo(IdwSamples, 1, MaxIdwPts)
    /\ idwQuery = [lat |-> 0, lon |-> 0]
    /\ idwOut = NoValue
    /\ idwPc = "input"

IdwIdle ==
    /\ idwPoints = <<>>
    /\ idwQuery = [lat |-> 0, lon |-> 0]
    /\ idwOut = NoValue
    /\ idwPc = "idle"

\* generateContour, app.js:789: var value = computeIDW(lat, lon, points)
Interpolate(q) ==
    /\ idwPoints # <<>>
    /\ idwQuery' = q
    /\ idwOut' = computeIDW(q.lat, q.lon, idwPoints)
    /\ idwPc' = "done"
    /\ UNCHANGED idwPoints
    /\ IdwOnly

IdwNext == \E q \in IdwGrid : Interpolate(q)


(***************************************************************************)
(* ContourModule: colour mapping                                           *)
(***************************************************************************)
C_GREEN == [r |-> 114, g |-> 175, b |-> 38]

C_YELLOW == [r |-> 240, g |-> 208, b |-> 0]

C_ORANGE == [r |-> 240, g |-> 147, b |-> 43]

C_RED == [r |-> 214, g |-> 62, b |-> 42]

\* AppConfig.thresholds (config source not available): Mercury as the
\* specification gives it, and every pair 1 <= low <= high <= MaxThresh
MercuryLow == 1

MercuryHigh == 204

MercuryThreshold == [low |-> MercuryLow, high |-> MercuryHigh]

MaxThresh == 4

Thresholds ==
    {MercuryThreshold}
        \cup {t \in [low : 1..MaxThresh, high : 1..MaxThresh] : t.low <= t.high}

MaxColorValue == 9

ColorValues ==
    [num : 0..MaxColorValue
             \cup {MercuryHigh, 250, 2 * MercuryHigh - MercuryLow - 1,
                   2 * MercuryHigh - MercuryLow, 500},
     den : {1, 2}]

\* Math.round(c1 + (c2 - c1) * t) for t = tn / td with 0 <= tn <= td
RoundChannel(c1, c2, tn, td) ==
    (2 * (c1 * td + (c2 - c1) * tn) + td) \div (2 * td)

\* mutant: Math.floor in place of Math.round
FloorChannel(c1, c2, tn, td) ==
    (c1 * td + (c2 - c1) * tn) \div td

lerpColor_Floor(c1, c2, tn, td) ==
    LET cn == IF tn < 0 THEN 0 ELSE IF tn > td THEN td ELSE tn
    IN  [r |-> FloorChannel(c1.r, c2.r, cn, td),
         g |-> FloorChannel(c1.g, c2.g, cn, td),
         b |-> FloorChannel(c1.b, c2.b, cn, td)]

\* lerpColor(c1, c2, t) with t = tn / td, td > 0
lerpColor(c1, c2, tn, td) ==
    LET cn == IF tn < 0 THEN 0 ELSE IF tn > td THEN td ELSE tn
    IN  [r |-> RoundChannel(c1.r, c2.r, cn, td),
         g |-> RoundChannel(c1.g, c2.g, cn, td),
         b |-> RoundChannel(c1.b, c2.b, cn, td)]

\* mutant: the bands above the threshold forget to subtract thresh.high
valueToColor_NoSubtract(value, thresh) ==
    LET vn == value.num
        vd == value.den
    IN  IF vn <= 0 THEN C_GREEN
        ELSE IF thresh.low = thresh.high
        THEN IF vn < thresh.low * vd
             THEN lerpColor(C_GREEN, C_YELLOW, vn, thresh.low * vd)
             ELSE lerpColor(C_YELLOW, C_RED, vn, thresh.high * vd)
        ELSE IF vn < thresh.low * vd
        THEN lerpColor(C_GREEN, C_YELLOW, vn, thresh.low * vd)
        ELSE IF vn < thresh.high * vd
        THEN lerpColor(C_YELLOW, C_ORANGE,
                       vn - thresh.low * vd, (thresh.high - thresh.low) * vd)
        ELSE lerpColor(C_ORANGE, C_RED, vn, (thresh.high - thresh.low) * vd)

\* valueToColor(value, thresh) for value = value.num / value.den
valueToColor(value, thresh) ==
    LET vn == value.num
        vd == value.den
    IN  IF vn <= 0 THEN C_GREEN
        ELSE IF thresh.low = thresh.high
        THEN IF vn < thresh.low * vd
             THEN lerpColor(C_GREEN, C_YELLOW, vn, thresh.low * vd)
             ELSE lerpColor(C_YELLOW, C_RED,
                            vn - thresh.high * vd, thresh.high * vd)
        ELSE IF vn < thresh.low * vd
        THEN lerpColor(C_GREEN, C_YELLOW, vn, thresh.low * vd)
        ELSE IF vn < thresh.high * vd
        THEN lerpColor(C_YELLOW, C_ORANGE,
                       vn - thresh.low * vd, (thresh.high - thresh.low) * vd)
        ELSE lerpColor(C_ORANGE, C_RED,
                       vn - thresh.high * vd, (thresh.high - thresh.low) * vd)

ColInit ==
    /\ colThresh \in Thresholds
    /\ colValue = NoValue
    /\ colOut = C_GREEN
    /\ colPc = "input"

ColIdle ==
    /\ colThresh = MercuryThreshold
    /\ colValue = NoValue
    /\ colOut = C_GREEN
    /\ colPc = "idle"

\* generateContour, app.js:792: var color = valueToColor(value, thresh)
MapColor(v) ==
    /\ colPc # "idle"
    /\ colValue' = v
    /\ colOut' = valueToColor(v, colThresh)
    /\ colPc' = "done"
    /\ UNCHANGED colThresh
    /\ ColOnly

ColNext == \E v \in ColorValues : MapColor(v)

(***************************************************************************)
(* AppState.data: the loaded datasets                                      *)
(***************************************************************************)
Analytes == {"Mercury", "Arsenic", "Antimony", "Thallium"}

\* a metals object; Null stands for a missing (null or undefined) entry
Metals(hg, as, sb, tl) ==
    [a \in Analytes |->
        CASE a = "Mercury" -> hg
          [] a = "Arsenic" -> as
          [] a = "Antimony" -> sb
          [] a = "Thallium" -> tl]

\* a 2025 surface sample; hasMetals = FALSE is a record without s.metals
S25(lat, lon, sampled, hasMetals, metals) ==
    [lat |-> lat, lon |-> lon, sampled |-> sampled,
     hasMetals |-> hasMetals, metals |-> metals]

\* an EA historical sample
EA(lat, lon, hg, as, sb, tl) ==
    [lat |-> lat, lon |-> lon, mercury |-> hg, arsenic |-> as,
     antimony |-> sb, thallium |-> tl]

getSampleValue(sample, analyte, isEA) ==
    IF isEA
    THEN CASE analyte = "Mercury" -> sample.mercury
           [] analyte = "Arsenic" -> sample.arsenic
           [] analyte = "Antimony" -> sample.antimony
           [] analyte = "Thallium" -> sample.thallium
           [] OTHER -> Null
    ELSE IF sample.hasMetals THEN sample.metals[analyte] ELSE Null

\* AppConfig.thresholds (config source not available)
AnalyteThresholds ==
    [a \in Analytes |->
        CASE a = "Mercury" -> MercuryThreshold
          [] a = "Arsenic" -> [low |-> 3, high |-> 3]
          [] a = "Antimony" -> [low |-> 2, high |-> 6]
          [] a = "Thallium" -> [low |-> 1, high |-> 1]]

DataIdle ==
    /\ samples2025 = <<>>
    /\ eaSamples = <<>>
    /\ testPits2025 = <<>>
    /\ soilBorings2025 = <<>>
    /\ currentAnalyte = "Mercury"
    /\ plannedPoints = <<>>

MinOf(S) == CHOOSE x \in S : \A y \in S : x <= y

MaxOf(S) == CHOOSE x \in S : \A y \in S : x >= y

(***************************************************************************)
(* AnalysisModule: gap grid and hot-zone grid                              *)
(*                                                                         *)
(* Grid geometry is counted in 1 / GridScale of a tick, so that a cell     *)
(* side and its half are integers for every grid size in whole feet.       *)
(***************************************************************************)
\* AppConfig.gridDefaults (config source not available)
GridMinSizeFt == 25

GridDefaultSizeFt == 50

GridMaxSizeFt == 100

GridScale == 2 * FeetToMetersDen

\* the literal 0.0005 degrees
PadU == (5 * TicksPerDeg * GridScale) \div 10000

\* gridSizeLat = sizeMeters / conv.metersPerDegLat
CellLatU(ft) ==
    (ft * FeetToMetersNum * TickW * GridScale) \div (FeetToMetersDen * LatW)

\* gridSizeLon = sizeMeters / conv.metersPerDegLon
CellLonU(ft) ==
    (ft * FeetToMetersNum * TickW * GridScale) \div (FeetToMetersDen * LonW)

\* centerLatLng.distanceTo(L.latLng(s.lat, s.lon)) <= searchRadius, with
\* Leaflet's distanceTo taken as the planar distance of coordConversion
WithinRadius(cLatU, cLonU, s, ft) ==
    LET dy == (cLatU - s.lat * GridScale) * LatW
        dx == (cLonU - s.lon * GridScale) * LonW
        r  == (ft * FeetToMetersNum * TickW * GridScale) \div FeetToMetersDen
    IN  dy * dy + dx * dx <= r * r

\* the values a loop "for (x = from; x < to; x += step)" visits
RECURSIVE LoopValues(_, _, _)
LoopValues(from, to, step) ==
    IF from < to THEN {from} \cup LoopValues(from + step, to, step) ELSE {}

Positions(samples) == [i \in 1..Len(samples) |->
                          [lat |-> samples[i].lat, lon |-> samples[i].lon]]

IsSampled(s) == s.sampled

\* createGapGrid: baseSamples
GapBaseSamples ==
    Positions(SelectSeq(samples2025, IsSampled)) \o Positions(eaSamples)

\* createGapGrid: densitySamples
GapDensitySamples(inclPlanned) ==
    IF inclPlanned THEN GapBaseSamples \o Positions(plannedPoints)
    ELSE GapBaseSamples

BoxOf(samples) ==
    [minLat |-> MinOf({p.lat : p \in Range(samples)}) * GridScale - PadU,
     maxLat |-> MaxOf({p.lat : p \in Range(samples)}) * GridScale + PadU,
     minLon |-> MinOf({p.lon : p \in Range(samples)}) * GridScale - PadU,
     maxLon |-> MaxOf({p.lon : p \in Range(samples)}) * GridScale + PadU]

GapCount(lat, lon, ft, density) ==
    Cardinality({i \in 1..Len(density) :
        WithinRadius(lat + CellLatU(ft) \div 2, lon + CellLonU(ft) \div 2,
                     density[i], ft)})

\* the classification with three samples still counted as sparse
GapColor_ThreeIsSparse(count) ==
    IF count = 0 THEN "#ff0000" ELSE IF count <= 3 THEN "#ffff00" ELSE "#00ff00"

GapColor(count) ==
    IF count = 0 THEN "#ff0000" ELSE IF count <= 2 THEN "#ffff00" ELSE "#00ff00"

\* mutant: the rectangle is drawn with the longitude size on both axes
GapRect_LonSizeTwice(lat, lon, ft, density) ==
    [lat |-> lat, lon |-> lon,
     latMax |-> lat + CellLonU(ft), lonMax |-> lon + CellLonU(ft),
     color |-> GapColor(GapCount(lat, lon, ft, density))]

\* the L.rectangle of one cell
GapRect(lat, lon, ft, density) ==
    [lat |-> lat, lon |-> lon,
     latMax |-> lat + CellLatU(ft), lonMax |-> lon + CellLonU(ft),
     color |-> GapColor(GapCount(lat, lon, ft, density))]

\* createGapGrid: the rectangles added to AppState.gapLayer.  With no base
\* sample Math.min / Math.max give Infinity / -Infinity and no cell is made.
createGapGrid(ft, inclPlanned) ==
    IF GapBaseSamples = <<>> THEN [on |-> TRUE, cells |-> {}]
    ELSE LET box == BoxOf(GapBaseSamples)
             density == GapDensitySamples(inclPlanned)
         IN  [on |-> TRUE,
              cells |-> {GapRect(lat, lon, ft, density) :
                            lat \in LoopValues(box.minLat, box.maxLat, CellLatU(ft)),
                            lon \in LoopValues(box.minLon, box.maxLon, CellLonU(ft))}]

\* createHotZoneGrid: allSamples
HotZoneSamples(analyte) ==
    LET pick2025 == [i \in 1..Len(samples2025) |->
                        [lat |-> samples2025[i].lat, lon |-> samples2025[i].lon,
                         sampled |-> samples2025[i].sampled,
                         value |-> getSampleValue(samples2025[i], analyte, FALSE)]]
        pickEA == [i \in 1..Len(eaSamples) |->
                      [lat |-> eaSamples[i].lat, lon |-> eaSamples[i].lon,
                       sampled |-> TRUE,
                       value |-> getSampleValue(eaSamples[i], analyte, TRUE)]]
        Keep(s) == s.sampled /\ s.value # Null
        Strip(q) == [i \in 1..Len(q) |->
                        [lat |-> q[i].lat, lon |-> q[i].lon, value |-> q[i].value]]
    IN  Strip(SelectSeq(pick2025, Keep)) \o Strip(SelectSeq(pickEA, Keep))

\* the inner loop over allSamples: [foundAny, maxVal]
RECURSIVE HotZoneScan(_, _, _, _, _, _, _)
HotZoneScan(cLatU, cLonU, ft, all, si, foundAny, maxVal) ==
    IF si > Len(all) THEN [foundAny |-> foundAny, maxVal |-> maxVal]
    ELSE IF WithinRadius(cLatU, cLonU, all[si], ft)
         THEN HotZoneScan(cLatU, cLonU, ft, all, si + 1, TRUE,
                          IF all[si].value > maxVal THEN all[si].value ELSE maxVal)
         ELSE HotZoneScan(cLatU, cLonU, ft, all, si + 1, foundAny, maxVal)

\* the classification with a maximum equal to thresh.high already red
HotZoneColor_HighInclusive(maxVal, thresh) ==
    IF maxVal >= thresh.high THEN "#ff0000"
    ELSE IF maxVal > thresh.low THEN "#ff9900" ELSE "#00cc00"

HotZoneColor(maxVal, thresh) ==
    IF maxVal > thresh.high THEN "#ff0000"
    ELSE IF maxVal > thresh.low THEN "#ff9900" ELSE "#00cc00"

createHotZoneGrid(ft, analyte) ==
    LET all == HotZoneSamples(analyte)
    IN  IF all = <<>> THEN [on |-> TRUE, cells |-> {}]
        ELSE LET box == BoxOf(all)
                 Scan(lat, lon) ==
                     HotZoneScan(lat + CellLatU(ft) \div 2, lon + CellLonU(ft) \div 2,
                                 ft, all, 1, FALSE, 0)
             IN  [on |-> TRUE,
                  cells |->
                    {[lat |-> c[1], lon |-> c[2],
                      latMax |-> c[1] + CellLatU(ft), lonMax |-> c[2] + CellLonU(ft),
                      color |-> HotZoneColor(Scan(c[1], c[2]).maxVal,
                                             AnalyteThresholds[analyte])] :
                       c \in {d \in LoopValues(box.minLat, box.maxLat, CellLatU(ft))
                                     \X LoopValues(box.minLon, box.maxLon, CellLonU(ft)) :
                                 Scan(d[1], d[2]).foundAny}}]

NoLayer == [on |-> FALSE, cells |-> {}]

AnaIdle ==
    /\ gridSizeFt = GridDefaultSizeFt
    /\ includePlannedInGaps = TRUE
    /\ gapsVisible = FALSE
    /\ gapLayer = NoLayer
    /\ hotzoneVisible = FALSE
    /\ hotzoneLayer = NoLayer

toggleGapAnalysis ==
    /\ gapsVisible' = ~gapsVisible
    /\ gapLayer' = IF gapsVisible' THEN createGapGrid(gridSizeFt, includePlannedInGaps)
                   ELSE NoLayer
    /\ UNCHANGED <<gridSizeFt, includePlannedInGaps, hotzoneVisible, hotzoneLayer>>
    /\ AnaOnly

toggleHotZones ==
    /\ hotzoneVisible' = ~hotzoneVisible
    /\ hotzoneLayer' = IF hotzoneVisible' THEN createHotZoneGrid(gridSizeFt, currentAnalyte)
                       ELSE NoLayer
    /\ UNCHANGED <<gridSizeFt, includePlannedInGaps, gapsVisible, gapLayer>>
    /\ AnaOnly

adjustGridSize(delta) ==
    LET sum == gridSizeFt + delta
        low == IF sum < GridMinSizeFt THEN GridMinSizeFt ELSE sum
        newSize == IF low > GridMaxSizeFt THEN GridMaxSizeFt ELSE low
    IN  /\ gridSizeFt' = newSize
        /\ gapLayer' = IF gapsVisible THEN createGapGrid(newSize, includePlannedInGaps)
                       ELSE gapLayer
        /\ hotzoneLayer' = IF hotzoneVisible THEN createHotZoneGrid(newSize, currentAnalyte)
                           ELSE hotzoneLayer
        /\ UNCHANGED <<includePlannedInGaps, gapsVisible, hotzoneVisible>>
        /\ AnaOnly

toggleIncludePlanned ==
    /\ includePlannedInGaps' = ~includePlannedInGaps
    /\ gapLayer' = IF gapsVisible THEN createGapGrid(gridSizeFt, includePlannedInGaps')
                   ELSE gapLayer
    /\ UNCHANGED <<gridSizeFt, gapsVisible, hotzoneVisible, hotzoneLayer>>
    /\ AnaOnly

\* the datasets the grid analyses are exercised on
MaxAnaS25 == 2

MaxAnaEA == 1

MaxAnaPlanned == 1

AnaS25 ==
    {S25(0, 0, TRUE, TRUE, Metals(250, 2, Null, Null)),
     S25(30, 40, TRUE, TRUE, Metals(Null, 5, 4, 1)),
     S25(7, 40, FALSE, TRUE, Metals(9, 9, 9, 9)),
     S25(30, 7, TRUE, FALSE, Metals(Null, Null, Null, Null))}

AnaEA == {EA(10, 20, 1, Null, 7, Null), EA(30, 40, Null, 3, Null, 2)}

AnaPlanned == {[lat |-> 45, lon |-> 20]}

AnaInit ==
    /\ samples2025 \in SeqsUpTo(AnaS25, 0, MaxAnaS25)
    /\ eaSamples \in SeqsUpTo(AnaEA, 0, MaxAnaEA)
    /\ testPits2025 = <<>>
    /\ soilBorings2025 = <<>>
    /\ currentAnalyte \in Analytes
    /\ plannedPoints \in SeqsUpTo(AnaPlanned, 0, MaxAnaPlanned)
    /\ gridSizeFt = GridDefaultSizeFt
    /\ includePlannedInGaps = TRUE
    /\ gapsVisible = FALSE
    /\ gapLayer = NoLayer
    /\ hotzoneVisible = FALSE
    /\ hotzoneLayer = NoLayer

AnaNext ==
    \/ toggleGapAnalysis
    \/ toggleHotZones
    \/ \E delta \in {25, -25} : adjustGridSize(delta)
    \/ toggleIncludePlanned

(***************************************************************************)
(* Multi-depth records, and the datasets the tools are exercised on        *)
(***************************************************************************)
\* a depth interval of a test pit or soil boring, depths in half feet;
\* hasMetals = FALSE is an interval without d.metals
Depth(start, end, hasMetals, metals) ==
    [start |-> start, end |-> end, hasMetals |-> hasMetals, metals |-> metals]

\* a test pit or soil boring
Pit(lat, lon, depths) == [lat |-> lat, lon |-> lon, depths |-> depths]

NoMetals == Metals(Null, Null, Null, Null)

DataA ==
    [samples2025 |->
        <<S25(0, 4, TRUE, TRUE, Metals(250, 2, Null, Null)),
          S25(3, 4, TRUE, TRUE, Metals(Null, 5, 4, 1)),
          S25(0, 12, TRUE, FALSE, NoMetals),
          S25(1, 2, FALSE, TRUE, Metals(9, 9, 9, 9))>>,
     eaSamples |->
        <<EA(4, 4, 1, Null, 7, Null), EA(16, 0, 300, 3, Null, 2)>>,
     testPits2025 |->
        <<Pit(1, 6, <<Depth(0, 4, TRUE, Metals(5, Null, 1, 1)),
                     Depth(4, 8, FALSE, NoMetals)>>),
          Pit(2, 2, <<>>)>>,
     soilBorings2025 |->
        <<Pit(0, 16, <<Depth(0, 10, TRUE, Metals(Null, 1, 1, 1))>>)>>]

DataB ==
    [samples2025 |->
        <<S25(2, 8, TRUE, TRUE, Metals(3, 3, 3, 3)),
          S25(0, 0, TRUE, TRUE, Metals(1, Null, 8, Null))>>,
     eaSamples |-> <<EA(0, 9, Null, Null, Null, Null)>>,
     testPits2025 |-> <<>>,
     soilBorings2025 |->
        <<Pit(15, 0, <<Depth(0, 2, TRUE, Metals(205, 4, 7, 2)),
                      Depth(2, 6, TRUE, Metals(Null, 2, Null, 0))>>)>>]

DataSets == {DataA, DataB}

\* the datasets are loaded before any tool is used
DataLoaded ==
    /\ \E d \in DataSets :
          /\ samples2025 = d.samples2025
          /\ eaSamples = d.eaSamples
          /\ testPits2025 = d.testPits2025
          /\ soilBorings2025 = d.soilBorings2025
    /\ currentAnalyte \in Analytes
    /\ plannedPoints = <<>>

\* AppConfig.exceedsROD (config source not available): above the high threshold
exceedsROD(val, analyte) == val > AnalyteThresholds[analyte].high

\* L.LatLng.distanceTo, squared and counted in (1 / TickW) m, taken as the
\* planar distance of coordConversion
distanceToSq(p, q) ==
    LET dLat == (p.lat - q.lat) * LatW
        dLon == (p.lon - q.lon) * LonW
    IN  dLat * dLat + dLon * dLon

\* num / den <= (ft * feetToMeters)^2 for a squared distance num / den in
\* (1 / TickW) m, den > 0; quotient and remainder keep the products small
WithinFeet(num, den, ft) ==
    LET R == (ft * FeetToMetersNum * TickW) * (ft * FeetToMetersNum * TickW)
        D == FeetToMetersDen * FeetToMetersDen
        q == num \div den
        r == num % den
    IN  q * D + ((r * D + den - 1) \div den) <= R

(***************************************************************************)
(* ContourModule: the overlay                                              *)
(***************************************************************************)
GRID_METERS == 10

\* BOUNDS_BUFFER_DEG = 0.0005 degrees, in ticks
BoundsBufferTicks == (5 * TicksPerDeg) \div 10000

MaxRasterSide == 1000

\* collectSamplePoints without its filter on missing values
collectSamplePoints_KeepNull(analyte) ==
    LET Keep25(s) == s.sampled
        pts25 == SelectSeq(samples2025, Keep25)
    IN  [i \in 1..Len(pts25) |->
            [lat |-> pts25[i].lat, lon |-> pts25[i].lon,
             value |-> getSampleValue(pts25[i], analyte, FALSE)]]
        \o
        [j \in 1..Len(eaSamples) |->
            [lat |-> eaSamples[j].lat, lon |-> eaSamples[j].lon,
             value |-> getSampleValue(eaSamples[j], analyte, TRUE)]]

collectSamplePoints(analyte) ==
    LET val25(s) == IF s.hasMetals THEN s.metals[analyte] ELSE Null
        Keep25(s) == s.sampled /\ val25(s) # Null
        KeepEA(e) == getSampleValue(e, analyte, TRUE) # Null
        pts25 == SelectSeq(samples2025, Keep25)
        ptsEA == SelectSeq(eaSamples, KeepEA)
    IN  [i \in 1..Len(pts25) |->
            [lat |-> pts25[i].lat, lon |-> pts25[i].lon, value |-> val25(pts25[i])]]
        \o
        [j \in 1..Len(ptsEA) |->
            [lat |-> ptsEA[j].lat, lon |-> ptsEA[j].lon,
             value |-> getSampleValue(ptsEA[j], analyte, TRUE)]]

CeilDiv(a, b) == (a + b - 1) \div b

NoContour == [on |-> FALSE, points |-> <<>>, minLat |-> 0, maxLat |-> 0,
              minLon |-> 0, maxLon |-> 0, rows |-> 0, cols |-> 0]

\* generateContour drawing a surface from two points already
generateContour_TwoPoints(analyte) ==
    LET points == collectSamplePoints(analyte)
        lats == {p.lat : p \in Range(points)}
        lons == {p.lon : p \in Range(points)}
    IN  IF Len(points) < 2 THEN NoContour
        ELSE [on |-> TRUE, points |-> points,
              minLat |-> MinOf(lats) - BoundsBufferTicks,
              maxLat |-> MaxOf(lats) + BoundsBufferTicks,
              minLon |-> MinOf(lons) - BoundsBufferTicks,
              maxLon |-> MaxOf(lons) + BoundsBufferTicks,
              rows |-> 1, cols |-> 1]

\* generateContour: the overlay attached to the map.  The raster itself is a
\* function of the points kept here (computeIDW and valueToColor at each cell
\* centre inside the buffered hull) and is not stored.
generateContour(analyte) ==
    LET points == collectSamplePoints(analyte)
        minLat == MinOf({p.lat : p \in Range(points)}) - BoundsBufferTicks
        maxLat == MaxOf({p.lat : p \in Range(points)}) + BoundsBufferTicks
        minLon == MinOf({p.lon : p \in Range(points)}) - BoundsBufferTicks
        maxLon == MaxOf({p.lon : p \in Range(points)}) + BoundsBufferTicks
        cols == CeilDiv((maxLon - minLon) * LonW, GRID_METERS * TickW)
        rows == CeilDiv((maxLat - minLat) * LatW, GRID_METERS * TickW)
    IN  IF Len(points) < 3 THEN NoContour
        ELSE [on |-> TRUE, points |-> points,
              minLat |-> minLat, maxLat |-> maxLat,
              minLon |-> minLon, maxLon |-> maxLon,
              rows |-> IF rows > MaxRasterSide THEN MaxRasterSide ELSE rows,
              cols |-> IF cols > MaxRasterSide THEN MaxRasterSide ELSE cols]

ConIdle ==
    /\ contourVisible = FALSE
    /\ contourLayer = NoContour

\* ContourModule.toggle
toggleContour ==
    /\ contourVisible' = ~contourVisible
    /\ contourLayer' = IF contourVisible' THEN generateContour(currentAnalyte)
                       ELSE NoContour
    /\ ConOnly

\* sample extents from a few metres to more than MaxRasterSide cells
RasterNear == 6

RasterFar == 14000

RasterCoords == {0, RasterNear, RasterFar}

RasterData ==
    {<<S25(0, 0, TRUE, TRUE, Metals(1, 1, 1, 1)),
       S25(a.lat, a.lon, TRUE, TRUE, Metals(2, 2, 2, 2)),
       S25(b.lat, b.lon, TRUE, TRUE, Metals(3, 3, 3, 3))>> :
        a, b \in [lat : RasterCoords, lon : RasterCoords]}

RasterInit ==
    /\ samples2025 \in RasterData
    /\ eaSamples = <<>>
    /\ testPits2025 = <<>>
    /\ soilBorings2025 = <<>>
    /\ currentAnalyte = "Mercury"
    /\ plannedPoints = <<>>

RasterNext == toggleContour

(***************************************************************************)
(* AnalysisModule: buffer zones                                            *)
(***************************************************************************)
DefaultBufferRadiusFt == 50

NoBuffer == [on |-> FALSE, circles |-> <<>>]

createBufferZones(analyte, radiusFt) ==
    LET Keep25(s) ==
            /\ s.sampled
            /\ getSampleValue(s, analyte, FALSE) # Null
            /\ exceedsROD(getSampleValue(s, analyte, FALSE), analyte)
        KeepEA(e) ==
            /\ getSampleValue(e, analyte, TRUE) # Null
            /\ exceedsROD(getSampleValue(e, analyte, TRUE), analyte)
        Circles(q) == [i \in 1..Len(q) |->
                          [lat |-> q[i].lat, lon |-> q[i].lon, radiusFt |-> radiusFt]]
    IN  [on |-> TRUE,
         circles |-> Circles(SelectSeq(samples2025, Keep25))
                     \o Circles(SelectSeq(eaSamples, KeepEA))]

BufIdle ==
    /\ bufferVisible = FALSE
    /\ bufferRadiusFt = DefaultBufferRadiusFt
    /\ bufferLayer = NoBuffer

toggleBufferZones ==
    /\ bufferVisible' = ~bufferVisible
    /\ bufferLayer' = IF bufferVisible' THEN createBufferZones(currentAnalyte, bufferRadiusFt)
                      ELSE NoBuffer
    /\ UNCHANGED bufferRadiusFt
    /\ BufOnly

(***************************************************************************)
(* Mode and measurement state of AppState                                  *)
(***************************************************************************)
Modes == {"view", "proposed", "stepout"}

UiIdle ==
    /\ currentMode = "view"
    /\ measureMode = FALSE
    /\ measurePoints = <<>>
    /\ measureLine = FALSE
    /\ measureTimers = <<>>
    /\ nextMarker = 1
    /\ crossSectionMode = FALSE

setMode(mode) ==
    /\ currentMode' = mode
    /\ UNCHANGED <<measureMode, measurePoints, measureLine, crossSectionMode>>
    /\ UNCHANGED <<unitVars, dataVars, anaVars, conVars, bufVars, csVars, polyVars>>

\* AnalysisModule.toggleMeasureMode; clearMeasurement runs on either branch
toggleMeasureMode ==
    /\ measureMode' = ~measureMode
    /\ measurePoints' = <<>>
    /\ measureLine' = FALSE
    /\ UNCHANGED <<currentMode, crossSectionMode>>
    /\ UNCHANGED <<unitVars, dataVars, anaVars, conVars, bufVars, csVars, polyVars>>

\* the bounds of a measuring session
MaxMarkers == 5

MaxTimers == 2

MaxMeasurePoints == 3

MeasureLocs == {[lat |-> 0, lon |-> 0], [lat |-> 0, lon |-> 8]}

MeasureOnly ==
    UNCHANGED <<funVars, planVars, dataVars, anaVars, conVars, bufVars,
                csVars, polyVars, currentMode, crossSectionMode>>

\* AnalysisModule.handleMeasureClick, called for a map click in measure mode:
\* a new marker and point; the second point draws the line and schedules
\* the timeout, which is never cancelled
handleMeasureClick(latlng) ==
    /\ measureMode
    /\ LET points == Append(measurePoints, [at |-> latlng, marker |-> nextMarker])
       IN  /\ measurePoints' = points
           /\ nextMarker' = nextMarker + 1
           /\ IF Len(points) = 2
              THEN /\ measureLine' = TRUE
                   /\ measureTimers' =
                         Append(measureTimers,
                                [markers |-> {points[1].marker, points[2].marker}])
              ELSE UNCHANGED <<measureLine, measureTimers>>
    /\ UNCHANGED measureMode
    /\ MeasureOnly

\* the callback of setTimeout(..., 3000): clearMeasurement.  All delays are
\* equal, so the timeouts expire in the order they were scheduled.
measureTimeout ==
    /\ measureTimers # <<>>
    /\ measureTimers' = Tail(measureTimers)
    /\ measurePoints' = <<>>
    /\ measureLine' = FALSE
    /\ UNCHANGED <<measureMode, nextMarker>>
    /\ MeasureOnly

MeasureRoom ==
    /\ nextMarker <= MaxMarkers
    /\ Len(measurePoints) < MaxMeasurePoints
    /\ Len(measurePoints) = 1 => Len(measureTimers) < MaxTimers

MeasureNext ==
    \/ toggleMeasureMode
    \/ \E latlng \in MeasureLocs : MeasureRoom /\ handleMeasureClick(latlng)
    \/ measureTimeout

(***************************************************************************)
(* PlanningModule, the undo / redo stacks of AppState and StorageModule    *)
(*                                                                         *)
(* A planned point is a JavaScript object that the point list, the closure *)
(* of its marker and the undo actions may share.  Every point record       *)
(* carries the identity of its object in the field ref; an assignment to a *)
(* field of an object updates every record with that ref.                  *)
(* AppConfig.pointTypes is not among the source files: an id is modelled   *)
(* as [prefix, num] with one prefix per point type.                        *)
(***************************************************************************)
maxUndoSize == 50

MaxPlanned == 2

MaxUndoDepth == 3

MaxRefs == 3

NoPending == [id |-> "none"]

PointTypes == {"proposed", "stepout"}

PointId(type, num) == [prefix |-> type, num |-> num]

PointColor(type) == IF type = "proposed" THEN "proposedColor" ELSE "stepoutColor"

PlanLocs == {[lat |-> 45, lon |-> 20], [lat |-> 46, lon |-> 21]}

\* what parseFloat gives for the coordinate entry fields: two locations, text
\* that is no number, and a latitude out of range
CoordEntries == PlanLocs \cup {[lat |-> NaN, lon |-> 20], [lat |-> 91 * TicksPerDeg, lon |-> 20]}

\* what the note field and the depth select of a popup or of the coordinate
\* entry hold
PlanEdits == {[note |-> "", depth |-> "Shallow"], [note |-> "note", depth |-> "Deep"]}

PlanIdle ==
    /\ pendingPoint = NoPending
    /\ undoStack = <<>>
    /\ redoStack = <<>>
    /\ plannedMarkers = {}
    /\ storedPoints = <<>>
    /\ nextRef = 1

\* the planning state a handler works on, threaded through the calls it makes
PlanNow ==
    [pp |-> plannedPoints, us |-> undoStack, rs |-> redoStack,
     mk |-> plannedMarkers, st |-> storedPoints, nr |-> nextRef]

getNextPointNumber(points, type) ==
    LET usedNums == {points[i].id.num :
                        i \in {j \in 1..Len(points) : points[j].id.prefix = type}}
    IN  CHOOSE n \in 1..(Len(points) + 1) :
            /\ n \notin usedNums
            /\ \A k \in 1..(n - 1) : k \in usedNums

\* JSON.stringify writes a number that is not finite as null
JsonNumber(x) == IF x = NaN THEN Null ELSE x

savePlannedPoints_NoDepth(s) ==
    [s EXCEPT !.st = [i \in 1..Len(s.pp) |->
                         [id |-> s.pp[i].id, type |-> s.pp[i].type,
                          lat |-> JsonNumber(s.pp[i].lat),
                          lon |-> JsonNumber(s.pp[i].lon),
                          depth |-> "Shallow", note |-> s.pp[i].note,
                          color |-> s.pp[i].color]]]

\* savePlannedPoints followed by JSON.parse of the stored text
savePlannedPoints(s) ==
    [s EXCEPT !.st = [i \in 1..Len(s.pp) |->
                         [id |-> s.pp[i].id, type |-> s.pp[i].type,
                          lat |-> JsonNumber(s.pp[i].lat),
                          lon |-> JsonNumber(s.pp[i].lon),
                          depth |-> s.pp[i].depth, note |-> s.pp[i].note,
                          color |-> s.pp[i].color]]]

\* p.id && p.type && typeof p.lat === 'number' && typeof p.lon === 'number'
ValidStored(p) ==
    p.id.prefix # "" /\ p.type # "" /\ p.lat # Null /\ p.lon # Null

restorePlannedPoints(stored) == SelectSeq(stored, ValidStored)

\* pushUndo without the shift of the oldest action
pushUndo_NoShift(s, action) ==
    [s EXCEPT !.us = Append(s.us, action), !.rs = <<>>]

pushUndo(s, action) ==
    LET pushed == Append(s.us, action)
    IN  [s EXCEPT !.us = IF Len(pushed) > maxUndoSize THEN Tail(pushed) ELSE pushed,
                  !.rs = <<>>]

addPlannedMarker(s, point) ==
    [s EXCEPT !.mk = @ \cup {[ref |-> point.ref, pointId |-> point.id]}]

\* plannedPoints.find / findIndex by id: the first match, 0 when there is none
FindById(points, pointId) ==
    IF \E i \in 1..Len(points) : points[i].id = pointId
    THEN CHOOSE i \in 1..Len(points) :
            /\ points[i].id = pointId
            /\ \A j \in 1..(i - 1) : points[j].id # pointId
    ELSE 0

\* an assignment to fields of the object ref, seen through every reference
IsPointAction(a) == a.type \in {"add_point", "delete_point"}

Assign(s, ref, lat, lon, note, depth) ==
    LET set(p) == [p EXCEPT !.lat = lat, !.lon = lon, !.note = note, !.depth = depth]
        inList(l) == [i \in 1..Len(l) |-> IF l[i].ref = ref THEN set(l[i]) ELSE l[i]]
        inStack(k) == [i \in 1..Len(k) |->
                          IF IsPointAction(k[i]) /\ k[i].data.ref = ref
                          THEN [k[i] EXCEPT !.data = set(k[i].data)]
                          ELSE k[i]]
    IN  [s EXCEPT !.pp = inList(s.pp), !.us = inStack(s.us), !.rs = inStack(s.rs)]

deletePoint(s, idx) ==
    [s EXCEPT !.mk = {mkr \in s.mk : mkr.pointId # s.pp[idx].id},
              !.pp = SubSeq(s.pp, 1, idx - 1) \o SubSeq(s.pp, idx + 1, Len(s.pp))]

\* JSON.parse(JSON.stringify(point)): a new object
DeepCopy(s, point) == [point EXCEPT !.ref = s.nr]

DeleteAt(s, idx) ==
    LET deletedPoint == DeepCopy(s, s.pp[idx])
        removed == deletePoint([s EXCEPT !.nr = @ + 1], idx)
    IN  savePlannedPoints(pushUndo(removed, [type |-> "delete_point",
                                             data |-> deletedPoint]))

deletePointById(s, pointId) ==
    LET idx == FindById(s.pp, pointId)
    IN  IF idx = 0 THEN s ELSE DeleteAt(s, idx)

AddPoint(s, point) ==
    savePlannedPoints(pushUndo(addPlannedMarker([s EXCEPT !.pp = Append(@, point),
                                                          !.nr = @ + 1], point),
                               [type |-> "add_point", data |-> point]))

\* the switch of undo, after the action has moved to the redo stack
UndoAction(s, action) ==
    LET idx == FindById(s.pp, action.data.id)
    IN  CASE action.type = "add_point" -> deletePointById(s, action.data.id)
          [] action.type = "delete_point" ->
                addPlannedMarker([s EXCEPT !.pp = Append(@, action.data)], action.data)
          [] action.type = "move_point" ->
                IF idx = 0 THEN s
                ELSE Assign(s, s.pp[idx].ref, action.data.oldLat, action.data.oldLon,
                            s.pp[idx].note, s.pp[idx].depth)
          [] action.type = "edit_point" ->
                IF idx = 0 THEN s
                ELSE Assign(s, s.pp[idx].ref, s.pp[idx].lat, s.pp[idx].lon,
                            action.data.oldNote, action.data.oldDepth)

\* the switch of redo, after the action has moved to the undo stack
RedoAction(s, action) ==
    LET idx == FindById(s.pp, action.data.id)
    IN  CASE action.type = "add_point" ->
                addPlannedMarker([s EXCEPT !.pp = Append(@, action.data)], action.data)
          [] action.type = "delete_point" -> deletePointById(s, action.data.id)
          [] action.type = "move_point" ->
                IF idx = 0 THEN s
                ELSE Assign(s, s.pp[idx].ref, action.data.newLat, action.data.newLon,
                            s.pp[idx].note, s.pp[idx].depth)
          [] action.type = "edit_point" ->
                IF idx = 0 THEN s
                ELSE Assign(s, s.pp[idx].ref, s.pp[idx].lat, s.pp[idx].lon,
                            action.data.newNote, action.data.newDepth)

\* the planning state a handler leaves behind; the gap grid is rebuilt from
\* the new point list when it is shown
PlanBecomes(s, refreshGaps) ==
    /\ plannedPoints' = s.pp
    /\ undoStack' = s.us
    /\ redoStack' = s.rs
    /\ plannedMarkers' = s.mk
    /\ storedPoints' = s.st
    /\ nextRef' = s.nr
    /\ UNCHANGED <<samples2025, eaSamples, testPits2025, soilBorings2025,
                   currentAnalyte>>
    /\ UNCHANGED <<gridSizeFt, includePlannedInGaps, gapsVisible, hotzoneVisible,
                   hotzoneLayer>>
    /\ gapLayer' = IF refreshGaps /\ gapsVisible
                   THEN createGapGrid(gridSizeFt, includePlannedInGaps)'
                   ELSE gapLayer
    /\ UNCHANGED <<funVars, timerVars, conVars, bufVars, uiVars, csVars, polyVars>>

\* a map click in a planning mode (the map click dispatcher is not among the
\* source files; in view mode AppConfig.pointTypes[mode] is undefined)
showAddPointPopup(latlng) ==
    /\ currentMode # "view"
    /\ pendingPoint' = [lat |-> latlng.lat, lon |-> latlng.lon, type |-> currentMode,
                        id |-> PointId(currentMode,
                                       getNextPointNumber(plannedPoints, currentMode))]
    /\ UNCHANGED <<undoStack, redoStack, plannedMarkers, storedPoints, nextRef>>
    /\ UNCHANGED <<funVars, timerVars, appVars>>

confirmAddPoint(note, depth) ==
    /\ pendingPoint # NoPending
    /\ LET point == [ref |-> nextRef, id |-> pendingPoint.id,
                     type |-> pendingPoint.type, lat |-> pendingPoint.lat,
                     lon |-> pendingPoint.lon, note |-> note, depth |-> depth,
                     color |-> PointColor(pendingPoint.type)]
       IN  PlanBecomes(AddPoint(PlanNow, point), TRUE)
    /\ pendingPoint' = NoPending

cancelAddPoint ==
    /\ pendingPoint # NoPending
    /\ pendingPoint' = NoPending
    /\ UNCHANGED <<undoStack, redoStack, plannedMarkers, storedPoints, nextRef>>
    /\ UNCHANGED <<funVars, timerVars, appVars>>

addFromCoordinates(entry, note, depth) ==
    /\ entry.lat # NaN /\ entry.lon # NaN
    /\ ~(entry.lat < -90 * TicksPerDeg \/ entry.lat > 90 * TicksPerDeg
         \/ entry.lon < -180 * TicksPerDeg \/ entry.lon > 180 * TicksPerDeg)
    /\ LET mode == IF currentMode = "view" THEN "proposed" ELSE currentMode
           point == [ref |-> nextRef,
                     id |-> PointId(mode, getNextPointNumber(plannedPoints, mode)),
                     type |-> mode, lat |-> entry.lat, lon |-> entry.lon,
                     note |-> note, depth |-> depth, color |-> PointColor(mode)]
       IN  PlanBecomes(AddPoint(PlanNow, point), TRUE)
    /\ UNCHANGED pendingPoint

\* dragstart and dragend of the marker of the object ref
dragMarker(marker, latlng) ==
    /\ marker \in plannedMarkers
    /\ \E i \in 1..Len(plannedPoints) :
          /\ plannedPoints[i].ref = marker.ref
          /\ LET point == plannedPoints[i]
                 moved == Assign(PlanNow, marker.ref, latlng.lat, latlng.lon,
                                 point.note, point.depth)
                 action == [type |-> "move_point",
                            data |-> [id |-> point.id, oldLat |-> point.lat,
                                      oldLon |-> point.lon, newLat |-> latlng.lat,
                                      newLon |-> latlng.lon]]
             IN  PlanBecomes(savePlannedPoints(pushUndo(moved, action)), TRUE)
    /\ UNCHANGED pendingPoint

\* the Save button of the popup of a marker
savePointNote(pointId, note, depth) ==
    /\ \E marker \in plannedMarkers : marker.pointId = pointId
    /\ FindById(plannedPoints, pointId) # 0
    /\ LET point == plannedPoints[FindById(plannedPoints, pointId)]
           edited == Assign(PlanNow, point.ref, point.lat, point.lon, note, depth)
           action == [type |-> "edit_point",
                      data |-> [id |-> point.id, oldNote |-> point.note,
                                oldDepth |-> point.depth, newNote |-> note,
                                newDepth |-> depth]]
       IN  PlanBecomes(savePlannedPoints(pushUndo(edited, action)), FALSE)
    /\ UNCHANGED pendingPoint

\* the Delete button of the popup of a marker
deleteFromPopup(pointId) ==
    /\ \E marker \in plannedMarkers : marker.pointId = pointId
    /\ FindById(plannedPoints, pointId) # 0
    /\ PlanBecomes(deletePointById(PlanNow, pointId), TRUE)
    /\ UNCHANGED pendingPoint

\* the delete button of an entry of the sidebar list
deleteFromList(idx) ==
    /\ idx \in 1..Len(plannedPoints)
    /\ PlanBecomes(DeleteAt(PlanNow, idx), TRUE)
    /\ UNCHANGED pendingPoint

\* confirmed by the user
clearAllPlanned ==
    /\ Len(plannedPoints) # 0
    /\ PlanBecomes(savePlannedPoints([PlanNow EXCEPT !.mk = {}, !.pp = <<>>,
                                                     !.us = <<>>, !.rs = <<>>]), TRUE)
    /\ UNCHANGED pendingPoint

undo ==
    /\ Len(undoStack) # 0
    /\ LET action == undoStack[Len(undoStack)]
           moved == [PlanNow EXCEPT !.us = Front(@), !.rs = Append(@, action)]
       IN  PlanBecomes(savePlannedPoints(UndoAction(moved, action)), TRUE)
    /\ UNCHANGED pendingPoint

redo ==
    /\ Len(redoStack) # 0
    /\ LET action == redoStack[Len(redoStack)]
           moved == [PlanNow EXCEPT !.rs = Front(@), !.us = Append(@, action)]
       IN  PlanBecomes(savePlannedPoints(RedoAction(moved, action)), TRUE)
    /\ UNCHANGED pendingPoint

\* the bounds of the exploration: room for one more action, one more object
\* and one more point
PlanRoom ==
    /\ Len(undoStack) < MaxUndoDepth
    /\ nextRef <= MaxRefs

AddRoom == PlanRoom /\ Len(plannedPoints) < MaxPlanned

\* undo of add_point and redo of delete_point copy the point they delete
UndoRoom ==
    (undoStack # <<>> /\ undoStack[Len(undoStack)].type = "add_point")
        => nextRef <= MaxRefs

RedoRoom ==
    (redoStack # <<>> /\ redoStack[Len(redoStack)].type = "delete_point")
        => nextRef <= MaxRefs

PlanNext ==
    \/ \E mode \in Modes : setMode(mode)
    \/ \E latlng \in PlanLocs : showAddPointPopup(latlng)
    \/ \E e \in PlanEdits : AddRoom /\ confirmAddPoint(e.note, e.depth)
    \/ cancelAddPoint
    \/ \E entry \in CoordEntries, e \in PlanEdits :
          AddRoom /\ addFromCoordinates(entry, e.note, e.depth)
    \/ \E marker \in plannedMarkers, latlng \in PlanLocs :
          PlanRoom /\ dragMarker(marker, latlng)
    \/ \E marker \in plannedMarkers, e \in PlanEdits :
          PlanRoom /\ savePointNote(marker.pointId, e.note, e.depth)
    \/ \E marker \in plannedMarkers : PlanRoom /\ deleteFromPopup(marker.pointId)
    \/ \E idx \in 1..MaxPlanned : PlanRoom /\ deleteFromList(idx)
    \/ clearAllPlanned
    \/ UndoRoom /\ undo
    \/ RedoRoom /\ redo

\* long histories: one point, edited over and over, deleted only when the
\* undo stack is about to be full
DeepEdit == [note |-> "note", depth |-> "Deep"]

CapNext ==
    \/ \E entry \in PlanLocs :
          /\ plannedPoints = <<>>
          /\ nextRef <= MaxRefs
          /\ addFromCoordinates(entry, "", "Shallow")
    \/ \E marker \in plannedMarkers :
          savePointNote(marker.pointId, DeepEdit.note, DeepEdit.depth)
    \/ /\ Len(undoStack) >= maxUndoSize - 1
       /\ nextRef <= MaxRefs
       /\ deleteFromList(1)
    \/ UndoRoom /\ undo
    \/ RedoRoom /\ redo

(***************************************************************************)
(* CrossSectionModule                                                      *)
(***************************************************************************)
DEFAULT_CORRIDOR_FT == 50

MinCorridorFt == 10

MaxCorridorFt == 500

\* the transect must be at least this many metres long
MinTransectM == 3

LatLng(lat, lon) == [lat |-> lat, lon |-> lon]

NoCorridor == [on |-> FALSE, a |-> LatLng(0, 0), b |-> LatLng(0, 0),
               halfWidthFt |-> 0]

NoCanvas == [samples |-> <<>>, analyte |-> "none"]

\* projectOntoSegment: the squared distance to the closest point of the
\* segment and the clamped parameter t, both exact fractions.  Latitude
\* differences are scaled by LatW and longitude differences by LonW, so
\* that cosLat is LonW / LatW.
projectOntoSegment(p, a, b) ==
    LET apLat == (p.lat - a.lat) * LatW
        apLng == (p.lon - a.lon) * LonW
        abLat == (b.lat - a.lat) * LatW
        abLng == (b.lon - a.lon) * LonW
        ab2 == abLat * abLat + abLng * abLng
        dot == apLat * abLat + apLng * abLng
        tn == IF dot < 0 THEN 0 ELSE IF dot > ab2 THEN ab2 ELSE dot
        \* |p - closest|^2 = |ap|^2 - 2 t (ap . ab) + t^2 |ab|^2 with t = tn / ab2
        num == (apLat * apLat + apLng * apLng) * ab2 - 2 * tn * dot + tn * tn
    IN  IF ab2 = 0
        THEN [distSq |-> [num |-> distanceToSq(a, p), den |-> 1],
              t |-> [num |-> 0, den |-> 1]]
        ELSE [distSq |-> [num |-> num, den |-> ab2],
              t |-> [num |-> tn, den |-> ab2]]

\* num / den < (ft * feetToMeters)^2
WithinFeetStrict(num, den, ft) ==
    LET R == (ft * FeetToMetersNum * TickW) * (ft * FeetToMetersNum * TickW)
        D == FeetToMetersDen * FeetToMetersDen
        q == num \div den
        r == num % den
    IN  q * D + ((r * D) \div den) < R

\* mutant: the corridor test is strict
InCorridor_Strict(distSq, widthFt) ==
    /\ widthFt # NaN
    /\ WithinFeetStrict(distSq.num, distSq.den, widthFt)

\* proj.distance <= corridorM; every comparison with NaN is false
InCorridor(distSq, widthFt) ==
    /\ widthFt # NaN
    /\ WithinFeet(distSq.num, distSq.den, widthFt)

\* tryAdd: what is pushed onto results, one interval record when the point
\* is inside the corridor and nothing otherwise
tryAdd(lat, lon, id, type, depthStart, depthEnd, value, a, b, widthFt) ==
    LET proj == projectOntoSegment(LatLng(lat, lon), a, b)
    IN  IF InCorridor(proj.distSq, widthFt)
        THEN <<[id |-> id, type |-> type, t |-> proj.t,
                depthStart |-> depthStart, depthEnd |-> depthEnd,
                value |-> value, lat |-> lat, lon |-> lon,
                distSq |-> proj.distSq]>>
        ELSE <<>>

RECURSIVE Flatten(_)
Flatten(ss) == IF ss = <<>> THEN <<>> ELSE ss[1] \o Flatten(Tail(ss))

\* data.samples2025.forEach: surface intervals, depths in half feet
AddSurface2025(a, b, widthFt, analyte) ==
    Flatten([i \in 1..Len(samples2025) |->
        IF ~samples2025[i].sampled THEN <<>>
        ELSE tryAdd(samples2025[i].lat, samples2025[i].lon, i, "SS", 0, 1,
                    getSampleValue(samples2025[i], analyte, FALSE),
                    a, b, widthFt)])

\* data.eaSamples.forEach
AddSurfaceEA(a, b, widthFt, analyte) ==
    Flatten([i \in 1..Len(eaSamples) |->
        tryAdd(eaSamples[i].lat, eaSamples[i].lon, i, "EA", 0, 1,
               getSampleValue(eaSamples[i], analyte, TRUE), a, b, widthFt)])

\* tp.depths.forEach of one test pit or boring
AddDepths(pit, id, type, a, b, widthFt, analyte) ==
    Flatten([k \in 1..Len(pit.depths) |->
        tryAdd(pit.lat, pit.lon, id, type, pit.depths[k].start, pit.depths[k].end,
               IF pit.depths[k].hasMetals THEN pit.depths[k].metals[analyte]
               ELSE Null,
               a, b, widthFt)])

\* data.testPits2025.forEach and data.soilBorings2025.forEach
AddPits(pits, type, a, b, widthFt, analyte) ==
    Flatten([i \in 1..Len(pits) |->
        AddDepths(pits[i], i, type, a, b, widthFt, analyte)])

\* ra.distAlong - rb.distAlong <= 0, distAlong being t times the transect length
DistAlongLeq(ra, rb) == ra.t.num * rb.t.den <= rb.t.num * ra.t.den

\* results.sort(...) is stable: a record goes after those not farther along
RECURSIVE InsertByDistAlong(_, _)
InsertByDistAlong(sorted, r) ==
    IF sorted = <<>> THEN <<r>>
    ELSE IF DistAlongLeq(sorted[Len(sorted)], r) THEN Append(sorted, r)
         ELSE Append(InsertByDistAlong(Front(sorted), r), sorted[Len(sorted)])

RECURSIVE SortByDistAlong(_)
SortByDistAlong(results) ==
    IF results = <<>> THEN <<>>
    ELSE InsertByDistAlong(SortByDistAlong(Front(results)), results[Len(results)])

\* collectSamples returning results as pushed, without the sort
collectSamples_Unsorted(a, b, widthFt, analyte) ==
    AddSurface2025(a, b, widthFt, analyte)
    \o AddSurfaceEA(a, b, widthFt, analyte)
    \o AddPits(testPits2025, "TP", a, b, widthFt, analyte)
    \o AddPits(soilBorings2025, "SB", a, b, widthFt, analyte)

collectSamples(a, b, widthFt, analyte) ==
    SortByDistAlong(AddSurface2025(a, b, widthFt, analyte)
                    \o AddSurfaceEA(a, b, widthFt, analyte)
                    \o AddPits(testPits2025, "TP", a, b, widthFt, analyte)
                    \o AddPits(soilBorings2025, "SB", a, b, widthFt, analyte))

\* the module state once the page has loaded: the DOMContentLoaded handler
\* of app.js calls CrossSectionModule.init() before bindEventListeners()
CsIdle ==
    /\ initialized = TRUE
    /\ active = FALSE
    /\ corridorWidthFt = DEFAULT_CORRIDOR_FT
    /\ transectPoints = <<>>
    /\ transectMarkers = <<>>
    /\ transectLine = FALSE
    /\ corridorPolygon = NoCorridor
    /\ savedMode = "view"
    /\ panelShown = FALSE
    /\ panelCanvas = NoCanvas
    /\ statusMsg = "hidden"
    /\ lastSamples = <<>>
    /\ collected = <<>>

\* clearTransect; nothing is collected for a transect that is gone
clearTransect ==
    /\ transectMarkers' = <<>>
    /\ transectPoints' = <<>>
    /\ transectLine' = FALSE
    /\ corridorPolygon' = NoCorridor
    /\ collected' = <<>>

\* hidePanel.  The canvas of a hidden panel is not kept: the panel is only
\* ever displayed by renderPanel, which redraws it.
hidePanel ==
    /\ panelShown' = FALSE
    /\ panelCanvas' = NoCanvas

\* lastSamples = samples; renderPanel(samples)
renderPanel(samples, analyte) ==
    /\ lastSamples' = samples
    /\ panelCanvas' = [samples |-> samples, analyte |-> analyte]
    /\ panelShown' = TRUE

\* mutant: a transect of exactly 3 m is rejected as well
TooShort_Inclusive(lengthSq) ==
    lengthSq <= (MinTransectM * TickW) * (MinTransectM * TickW)

\* lengthM < 3, on the squared length in (1 / TickW) m
TooShort(lengthSq) ==
    lengthSq < (MinTransectM * TickW) * (MinTransectM * TickW)

\* map click while the tool is active
handleTransectClick(latlng) ==
    /\ active
    /\ ~measureMode
    /\ LET restart == Len(transectPoints) >= 2
           points == (IF restart THEN <<>> ELSE transectPoints) \o <<latlng>>
           markers == (IF restart THEN <<>> ELSE transectMarkers) \o <<latlng>>
       IN  IF Len(points) = 1
           THEN /\ transectPoints' = points
                /\ transectMarkers' = markers
                /\ statusMsg' = "second"
                /\ IF restart
                   THEN /\ transectLine' = FALSE
                        /\ corridorPolygon' = NoCorridor
                        /\ collected' = <<>>
                        /\ hidePanel
                        /\ lastSamples' = <<>>
                   ELSE UNCHANGED <<transectLine, corridorPolygon, collected,
                                    panelShown, panelCanvas, lastSamples>>
           ELSE IF TooShort(distanceToSq(points[1], points[2]))
                THEN /\ statusMsg' = "tooShort"
                     /\ transectMarkers' = Front(markers)
                     /\ transectPoints' = Front(points)
                     /\ UNCHANGED <<transectLine, corridorPolygon, panelShown,
                                    panelCanvas, lastSamples, collected>>
                ELSE LET samples == collectSamples(points[1], points[2],
                                                   corridorWidthFt, currentAnalyte)
                     IN  /\ transectPoints' = points
                         /\ transectMarkers' = markers
                         /\ transectLine' = TRUE
                         /\ corridorPolygon' =
                               [on |-> TRUE, a |-> points[1], b |-> points[2],
                                halfWidthFt |-> corridorWidthFt]
                         /\ collected' = samples
                         /\ IF samples # <<>>
                            THEN /\ renderPanel(samples, currentAnalyte)
                                 /\ statusMsg' = "hidden"
                            ELSE /\ statusMsg' = "noSamplesRestart"
                                 /\ UNCHANGED <<lastSamples, panelCanvas, panelShown>>
    /\ UNCHANGED <<initialized, active, corridorWidthFt, savedMode>>
    /\ UNCHANGED uiVars
    /\ CsOnly

\* recalculateIfReady, the width being already set to widthFt
recalculateIfReady(widthFt) ==
    IF Len(transectPoints) < 2
    THEN UNCHANGED <<corridorPolygon, lastSamples, panelShown, panelCanvas,
                     statusMsg, collected>>
    ELSE LET samples == collectSamples(transectPoints[1], transectPoints[2],
                                       widthFt, currentAnalyte)
         IN  /\ corridorPolygon' =
                   [on |-> TRUE, a |-> transectPoints[1], b |-> transectPoints[2],
                    halfWidthFt |-> widthFt]
             /\ collected' = samples
             /\ IF samples # <<>>
                THEN /\ renderPanel(samples, currentAnalyte)
                     /\ UNCHANGED statusMsg
                ELSE /\ hidePanel
                     /\ statusMsg' = "noSamples"
                     /\ UNCHANGED lastSamples

\* Math.max(10, Math.min(500, ft)) of a number
ClampCorridor(ft) ==
    IF ft > MaxCorridorFt THEN MaxCorridorFt
    ELSE IF ft < MinCorridorFt THEN MinCorridorFt ELSE ft

\* the change listener of the corridor input in the panel header; parsed is
\* parseInt(this.value)
cwInputChange(parsed) ==
    /\ initialized
    /\ panelShown
    /\ LET widthFt == ClampCorridor(IF parsed = NaN \/ parsed = 0
                                    THEN DEFAULT_CORRIDOR_FT ELSE parsed)
       IN  /\ corridorWidthFt' = widthFt
           /\ recalculateIfReady(widthFt)
    /\ UNCHANGED <<initialized, active, transectPoints, transectMarkers,
                   transectLine, savedMode>>
    /\ UNCHANGED uiVars
    /\ CsOnly

\* the public setCorridorWidth; Math.min and Math.max of NaN are NaN
setCorridorWidth(ft) ==
    /\ LET widthFt == IF ft = NaN THEN NaN ELSE ClampCorridor(ft)
       IN  /\ corridorWidthFt' = widthFt
           /\ recalculateIfReady(widthFt)
    /\ UNCHANGED <<initialized, active, transectPoints, transectMarkers,
                   transectLine, savedMode>>
    /\ UNCHANGED uiVars
    /\ CsOnly

\* the click listener of the close button in the panel header
closePanel ==
    /\ initialized
    /\ panelShown
    /\ hidePanel
    /\ clearTransect
    /\ lastSamples' = <<>>
    /\ statusMsg' = (IF active THEN "first" ELSE statusMsg)
    /\ UNCHANGED <<initialized, active, corridorWidthFt, savedMode>>
    /\ UNCHANGED uiVars
    /\ CsOnly

activate ==
    /\ active' = TRUE
    /\ crossSectionMode' = TRUE
    /\ savedMode' = currentMode
    /\ currentMode' = "view"
    /\ measureMode' = FALSE
    /\ measurePoints' = (IF measureMode THEN <<>> ELSE measurePoints)
    /\ measureLine' = (IF measureMode THEN FALSE ELSE measureLine)
    /\ clearTransect
    /\ lastSamples' = <<>>
    /\ hidePanel
    /\ statusMsg' = "first"

deactivate ==
    /\ active' = FALSE
    /\ crossSectionMode' = FALSE
    /\ currentMode' = savedMode
    /\ clearTransect
    /\ hidePanel
    /\ statusMsg' = "hidden"
    /\ lastSamples' = <<>>
    /\ UNCHANGED <<savedMode, measureMode, measurePoints, measureLine>>

\* CrossSectionModule.toggle
toggle ==
    /\ initialized' = TRUE
    /\ IF active THEN deactivate ELSE activate
    /\ UNCHANGED corridorWidthFt
    /\ CsOnly

(***************************************************************************)
(* PolygonModule                                                           *)
(***************************************************************************)
\* the loop of pointInPolygon; edge i runs from vertex j = i - 1 (the last
\* vertex for the first edge) to vertex i
RECURSIVE RayCast(_, _, _, _, _)
RayCast(lat, lon, polygon, i, inside) ==
    IF i > Len(polygon) THEN inside
    ELSE LET j == IF i = 1 THEN Len(polygon) ELSE i - 1
             yi == polygon[i].lat
             xi == polygon[i].lon
             yj == polygon[j].lat
             xj == polygon[j].lon
             \* lon < (xj - xi) * (lat - yi) / (yj - yi) + xi, yj # yi
             left == IF yj > yi
                     THEN (lon - xi) * (yj - yi) < (xj - xi) * (lat - yi)
                     ELSE (lon - xi) * (yj - yi) > (xj - xi) * (lat - yi)
             intersect == ((yi > lat) # (yj > lat)) /\ left
         IN  RayCast(lat, lon, polygon, i + 1,
                     IF intersect THEN ~inside ELSE inside)

\* pointInPolygon without the edge from the last vertex back to the first
pointInPolygon_OpenChain(lat, lon, polygon) == RayCast(lat, lon, polygon, 2, FALSE)

pointInPolygon(lat, lon, polygon) == RayCast(lat, lon, polygon, 1, FALSE)

RECURSIVE Shoelace(_, _)
Shoelace(points, i) ==
    IF i > Len(points) THEN 0
    ELSE LET j == (i % Len(points)) + 1
         IN  points[i].x * points[j].y - points[j].x * points[i].y
             + Shoelace(points, i + 1)

Abs(x) == IF x < 0 THEN -x ELSE x

\* calculateAreaSqFt without Math.abs, as a fraction with a positive denominator
calculateAreaSqFt_Signed(verts) ==
    IF Len(verts) < 3 THEN [num |-> 0, den |-> 1]
    ELSE LET points == [i \in 1..Len(verts) |->
                           [x |-> (verts[i].lon - verts[1].lon) * LonW,
                            y |-> (verts[i].lat - verts[1].lat) * LatW]]
         IN  [num |-> Shoelace(points, 1) * FeetToMetersDen * FeetToMetersDen,
              den |-> 2 * TickW * TickW * FeetToMetersNum * FeetToMetersNum]

\* calculateAreaSqFt, an exact fraction of square feet: a coordinate in
\* (1 / TickW) m is FeetToMetersDen / (TickW * FeetToMetersNum) feet
calculateAreaSqFt(verts) ==
    IF Len(verts) < 3 THEN [num |-> 0, den |-> 1]
    ELSE LET points == [i \in 1..Len(verts) |->
                           [x |-> (verts[i].lon - verts[1].lon) * LonW,
                            y |-> (verts[i].lat - verts[1].lat) * LatW]]
         IN  [num |-> Abs(Shoelace(points, 1)) * FeetToMetersDen * FeetToMetersDen,
              den |-> 2 * TickW * TickW * FeetToMetersNum * FeetToMetersNum]

RECURSIVE SumSeq(_)
SumSeq(s) == IF s = <<>> THEN 0 ELSE s[1] + SumSeq(Tail(s))

\* the statistics with every valued sample counted as an exceedance
AnalyteStats_AllExceed(samplesInside, analyte) ==
    LET vals == [i \in 1..Len(samplesInside) |->
                    getSampleValue(samplesInside[i].sample, analyte,
                                   samplesInside[i].isEA)]
        Valued(v) == v # Null
        values == SelectSeq(vals, Valued)
    IN  [count |-> Len(values),
         min |-> IF values = <<>> THEN Null ELSE MinOf(Range(values)),
         max |-> IF values = <<>> THEN Null ELSE MaxOf(Range(values)),
         mean |-> [num |-> SumSeq(values), den |-> Len(values)],
         exceedances |-> Len(values)]

\* the statistics of one analyte over samplesInside; a mean with den = 0 is null
AnalyteStats(samplesInside, analyte) ==
    LET vals == [i \in 1..Len(samplesInside) |->
                    getSampleValue(samplesInside[i].sample, analyte,
                                   samplesInside[i].isEA)]
        Valued(v) == v # Null
        Exceeds(v) == v # Null /\ exceedsROD(v, analyte)
        values == SelectSeq(vals, Valued)
    IN  [count |-> Len(values),
         min |-> IF values = <<>> THEN Null ELSE MinOf(Range(values)),
         max |-> IF values = <<>> THEN Null ELSE MaxOf(Range(values)),
         mean |-> [num |-> SumSeq(values), den |-> Len(values)],
         exceedances |-> Len(SelectSeq(vals, Exceeds))]

analyzePolygon(verts) ==
    LET In25(s) == s.sampled /\ s.hasMetals /\ pointInPolygon(s.lat, s.lon, verts)
        InEA(e) == pointInPolygon(e.lat, e.lon, verts)
        in25 == SelectSeq(samples2025, In25)
        inEA == SelectSeq(eaSamples, InEA)
        samplesInside ==
            [i \in 1..Len(in25) |-> [sample |-> in25[i], isEA |-> FALSE]]
            \o [i \in 1..Len(inEA) |-> [sample |-> inEA[i], isEA |-> TRUE]]
    IN  [totalSamples |-> Len(samplesInside),
         stats |-> [a \in Analytes |-> AnalyteStats(samplesInside, a)],
         areaSqFt |-> calculateAreaSqFt(verts)]

(***************************************************************************)
(* PolygonModule: the geometry functions on their own                      *)
(***************************************************************************)
NoArea == [num |-> 0, den |-> 1]

GeoIdle ==
    /\ geoVerts = <<>>
    /\ geoPoint = [lat |-> 0, lon |-> 0]
    /\ geoInside = FALSE
    /\ geoArea = NoArea
    /\ geoPc = "idle"

\* analyzePolygon: pointInPolygon(s.lat, s.lon, verts)
testPoint(p) ==
    /\ geoPc # "idle"
    /\ geoPoint' = p
    /\ geoInside' = pointInPolygon(p.lat, p.lon, geoVerts)
    /\ geoPc' = "done"
    /\ UNCHANGED <<geoVerts, geoArea>>
    /\ GeoOnly

\* analyzePolygon: var areaSqFt = calculateAreaSqFt(verts)
measureArea ==
    /\ geoPc # "idle"
    /\ geoArea' = calculateAreaSqFt(geoVerts)
    /\ geoPc' = "done"
    /\ UNCHANGED <<geoVerts, geoPoint, geoInside>>
    /\ GeoOnly

\* the largest coordinate of the locations the ray cast is tried on
MaxPipCoord == 4

\* polygon vertices sit on every second grid line, so that a location can
\* lie strictly inside an edge's extent as well as level with a vertex
PipVertices ==
    {LatLng(2 * i, 2 * j) : i \in 0..(MaxPipCoord \div 2), j \in 0..(MaxPipCoord \div 2)}

PipQueries == [lat : 0..MaxPipCoord, lon : 0..MaxPipCoord]

\* twice the signed area of the triangle o, a, b
Orient(o, a, b) ==
    (a.lon - o.lon) * (b.lat - o.lat) - (a.lat - o.lat) * (b.lon - o.lon)

\* b and d lie strictly on opposite sides of the line through a and c
SplitBy(a, c, b, d) ==
    \/ Orient(a, c, b) > 0 /\ Orient(a, c, d) < 0
    \/ Orient(a, c, b) < 0 /\ Orient(a, c, d) > 0

\* the outlines finishPolygon can be handed that are simple polygons:
\* triangles with three corners, and quadrilaterals that one of their
\* diagonals splits into two triangles
SimplePolygon(v) ==
    IF Len(v) = 3 THEN Orient(v[1], v[2], v[3]) # 0
    ELSE SplitBy(v[1], v[3], v[2], v[4]) \/ SplitBy(v[2], v[4], v[1], v[3])

PipInit ==
    /\ geoVerts \in {v \in SeqsUpTo(PipVertices, 3, 4) : SimplePolygon(v)}
    /\ geoPoint = [lat |-> 0, lon |-> 0]
    /\ geoInside = FALSE
    /\ geoArea = NoArea
    /\ geoPc = "input"

PipNext == \E p \in PipQueries : testPoint(p)

\* the vertex list started k vertices later
Rotated(v, k) == [i \in 1..Len(v) |-> v[((i + k - 1) % Len(v)) + 1]]

\* the sides of the squares measured, in tens of feet
MaxSquareTens == 3

SquareSides == {10 * k : k \in 1..MaxSquareTens}

\* the axis-aligned square of side ft feet with its south-west corner at sw,
\* counter-clockwise from that corner
SquareAt(sw, ft) ==
    LET h == (ft * FeetToMetersNum * TickW) \div (FeetToMetersDen * LatW)
        w == (ft * FeetToMetersNum * TickW) \div (FeetToMetersDen * LonW)
    IN  <<sw, LatLng(sw.lat, sw.lon + w), LatLng(sw.lat + h, sw.lon + w),
          LatLng(sw.lat + h, sw.lon)>>

SquareCorners == {LatLng(lat, lon) : lat \in {-3, 0, 5}, lon \in {-3, 0, 5}}

\* every square, from each of its corners, in both directions
SquareOutlines ==
    UNION {{Rotated(SquareAt(sw, ft), k), Reverse(Rotated(SquareAt(sw, ft), k))} :
              sw \in SquareCorners, ft \in SquareSides, k \in 0..3}

AreaInit ==
    /\ geoVerts \in SquareOutlines
    /\ geoPoint = [lat |-> 0, lon |-> 0]
    /\ geoInside = FALSE
    /\ geoArea = NoArea
    /\ geoPc = "input"

AreaNext == measureArea

(***************************************************************************)
(* CrossSectionModule: horizontal layout of the sample columns             *)
(***************************************************************************)
CANVAS_WIDTH == 960

COLUMN_WIDTH_PX == 24

MARGIN_LEFT == 75

MARGIN_RIGHT == 50

\* the relaxation loop of resolveOverlaps runs at most this many passes
MaxPasses == 5

MaxLayoutCols == 3

MaxEdgeSteps == 3

ColumnStepPx == 10

\* positions are kept in units of 1/LayScale pixel, so that every halving
\* of the relaxation loop is exact: a pass halves at most once per pair
LayScale == 2 ^ (MaxPasses * MaxLayoutCols)

Px(n) == n * LayScale

LayIdle ==
    /\ layPositions = <<>>
    /\ layOut = <<>>
    /\ layPc = "idle"

\* positions.sort(function(a, b) { return a.x - b.x; }): a stable sort
RECURSIVE InsertByX(_, _)
InsertByX(sorted, p) ==
    IF sorted = <<>> \/ sorted[Len(sorted)].x <= p.x
    THEN Append(sorted, p)
    ELSE Append(InsertByX(SubSeq(sorted, 1, Len(sorted) - 1), p),
                sorted[Len(sorted)])

RECURSIVE SortByX(_)
SortByX(positions) ==
    IF positions = <<>> THEN <<>>
    ELSE InsertByX(SortByX(SubSeq(positions, 1, Len(positions) - 1)),
                   positions[Len(positions)])

\* one pass of the inner loop, from index i on: each pair closer than minGap
\* is pushed apart symmetrically, in place
RECURSIVE RelaxPass(_, _, _, _)
RelaxPass(positions, i, minGap, changed) ==
    IF i > Len(positions)
    THEN [positions |-> positions, changed |-> changed]
    ELSE LET gap == positions[i].x - positions[i - 1].x
             shift == (minGap - gap) \div 2
         IN  IF gap < minGap
             THEN RelaxPass([positions EXCEPT ![i - 1].x = @ - shift,
                                              ![i].x = @ + shift],
                            i + 1, minGap, TRUE)
             ELSE RelaxPass(positions, i + 1, minGap, changed)

\* the outer loop: passes until one changes nothing, five at most
RECURSIVE Relax(_, _, _)
Relax(positions, pass, minGap) ==
    IF pass >= MaxPasses THEN positions
    ELSE LET r == RelaxPass(positions, 2, minGap, FALSE)
         IN  IF ~r.changed THEN r.positions
             ELSE Relax(r.positions, pass + 1, minGap)

\* the forEach that clamps a column to the plotting bounds: two ifs in a row
ClampToPlot(p, plotLeft, plotRight) ==
    LET halfCol == Px(COLUMN_WIDTH_PX) \div 2
        x1 == IF p.x - halfCol < plotLeft THEN plotLeft + halfCol ELSE p.x
        x2 == IF x1 + halfCol > plotRight THEN plotRight - halfCol ELSE x1
    IN  [p EXCEPT !.x = x2]

resolveOverlaps(positions, minGap, plotLeft, plotRight) ==
    IF Len(positions) <= 1 THEN positions
    ELSE LET relaxed == Relax(SortByX(positions), 0, minGap)
         IN  [i \in 1..Len(relaxed) |->
                 ClampToPlot(relaxed[i], plotLeft, plotRight)]

\* xPx(distAlong) of a sample in the corridor: from the left edge of the plot
\* (distance 0) to its right edge (the length of the transect)
ColumnXs ==
    {MARGIN_LEFT + k * ColumnStepPx : k \in 0..MaxEdgeSteps}
    \cup {CANVAS_WIDTH - MARGIN_RIGHT - k * ColumnStepPx : k \in 0..MaxEdgeSteps}

\* groupOrder.map(...): one column per location id, in order of appearance;
\* collectSamples returns its results sorted by distAlong
ColumnInputs ==
    {xs \in UNION {[1..n -> ColumnXs] : n \in 0..MaxLayoutCols} :
        \A i \in 2..Len(xs) : xs[i - 1] <= xs[i]}

DisplayInput(xs) == [i \in 1..Len(xs) |-> [id |-> i, x |-> Px(xs[i])]]

PlotLeft == Px(MARGIN_LEFT)

PlotRight == Px(CANVAS_WIDTH - MARGIN_RIGHT)

MinGap == Px(COLUMN_WIDTH_PX + 2)

LayInit ==
    /\ layPositions \in {DisplayInput(xs) : xs \in ColumnInputs}
    /\ layOut = <<>>
    /\ layPc = "input"

\* renderCrossSection computing displayPositions
displayPositions ==
    /\ layPc = "input"
    /\ layOut' = resolveOverlaps(layPositions, MinGap, PlotLeft, PlotRight)
    /\ layPc' = "done"
    /\ UNCHANGED layPositions
    /\ LayOnly

LayNext == displayPositions

(***************************************************************************)
(* ContourModule: buffered hull                                            *)
(*                                                                         *)
(* Math.sqrt has no exact counterpart: the square root is rounded to the   *)
(* nearest 1/SqrtScale and every returned coordinate to the nearest        *)
(* 1/CoordScale tick, a coarser rounding than the double arithmetic of the *)
(* code.  bhOut holds coordinates in units of 1/CoordScale tick.           *)
(***************************************************************************)
HULL_BUFFER_METERS == 30

MaxBufCoord == 2

BufStepTicks == 10

MaxBufPts == 4

SqrtScale == 16

CoordScale == 16

BhIdle ==
    /\ bhHull = <<>>
    /\ bhMeters = 0
    /\ bhOut = <<>>
    /\ bhPc = "idle"

\* the largest r in lo..hi with r * r <= x
RECURSIVE ISqrtIn(_, _, _)
ISqrtIn(x, lo, hi) ==
    IF lo >= hi THEN lo
    ELSE LET mid == (lo + hi + 1) \div 2
         IN  IF mid * mid <= x THEN ISqrtIn(x, mid, hi)
             ELSE ISqrtIn(x, lo, mid - 1)

\* Math.sqrt(x) in units of 1/SqrtScale, rounded to nearest
SqrtScaled(x) == (ISqrtIn(x * 4 * SqrtScale * SqrtScale, 0, 46340) + 1) \div 2

\* p / q rounded to nearest, q > 0
RoundDiv(p, q) ==
    IF p >= 0 THEN (2 * p + q) \div (2 * q) ELSE -((2 * (-p) + q) \div (2 * q))

\* one pass of the second loop.  With n = hull.length, a / (n * TickW) is
\* dLatM and b / (n * TickW) is dLonM, so dist is sqrt(a*a + b*b) / (n * TickW)
\* and dLatM / dist is a / sqrt(a*a + b*b); bufLat is bufferMeters * TickW /
\* LatW ticks and bufLon is bufferMeters * TickW / LonW ticks
BufferVertex(hull, j, bufferMeters) ==
    LET n == Len(hull)
        sumLat == SumSeq([i \in 1..n |-> hull[i].lat])
        sumLon == SumSeq([i \in 1..n |-> hull[i].lon])
        a == (n * hull[j].lat - sumLat) * LatW
        b == (n * hull[j].lon - sumLon) * LonW
        distSq == a * a + b * b
        dist == SqrtScaled(distSq)
    IN  IF distSq < CeilDiv((n * TickW) * (n * TickW), 1000000)
        THEN [lat |-> hull[j].lat * CoordScale, lon |-> hull[j].lon * CoordScale]
        ELSE [lat |-> hull[j].lat * CoordScale
                        + RoundDiv(a * SqrtScale * bufferMeters * TickW * CoordScale,
                                   dist * LatW),
              lon |-> hull[j].lon * CoordScale
                        + RoundDiv(b * SqrtScale * bufferMeters * TickW * CoordScale,
                                   dist * LonW)]

bufferConvexHull_Inward(hull, bufferMeters) ==
    IF Len(hull) < 3
    THEN [j \in 1..Len(hull) |->
             [lat |-> hull[j].lat * CoordScale, lon |-> hull[j].lon * CoordScale]]
    ELSE [j \in 1..Len(hull) |-> BufferVertex(hull, j, 0 - bufferMeters)]

bufferConvexHull(hull, bufferMeters) ==
    IF Len(hull) < 3
    THEN [j \in 1..Len(hull) |->
             [lat |-> hull[j].lat * CoordScale, lon |-> hull[j].lon * CoordScale]]
    ELSE [j \in 1..Len(hull) |-> BufferVertex(hull, j, bufferMeters)]

\* the sample locations generateContour hands to computeConvexHull
BufGrid ==
    [lat : {k * BufStepTicks : k \in 0..MaxBufCoord},
     lon : {k * BufStepTicks : k \in 0..MaxBufCoord}]

BufPoints ==
    {pts \in SeqsUpTo(BufGrid, 3, MaxBufPts) :
        \A i \in 2..Len(pts) : HullBefore(pts[i - 1], pts[i])}

BufMeters == {1, HULL_BUFFER_METERS}

BhInit ==
    /\ bhHull \in {computeConvexHull(pts) : pts \in BufPoints}
    /\ bhMeters \in BufMeters
    /\ bhOut = <<>>
    /\ bhPc = "input"

\* generateContour: var bufferedHull = bufferConvexHull(hull, HULL_BUFFER_METERS)
bufferedHull ==
    /\ bhPc = "input"
    /\ bhOut' = bufferConvexHull(bhHull, bhMeters)
    /\ bhPc' = "done"
    /\ UNCHANGED <<bhHull, bhMeters>>
    /\ BhOnly

BhNext == bufferedHull

\* the stats panel before any analysis: hidden and empty
NoStats == [shown |-> FALSE, results |-> analyzePolygon(<<>>)]

PolyIdle ==
    /\ polygonMode = FALSE
    /\ polygonVertices = <<>>
    /\ tempVertexMarkers = <<>>
    /\ tempPolyline = <<>>
    /\ polygonFinal = <<>>
    /\ statsPanel = NoStats

\* clearDrawingState: clearTempLayers and the vertex list
clearDrawingState ==
    /\ tempPolyline' = <<>>
    /\ tempVertexMarkers' = <<>>
    /\ polygonVertices' = <<>>

clearPolygon ==
    /\ clearDrawingState
    /\ polygonFinal' = <<>>
    /\ statsPanel' = NoStats

\* PolygonModule.toggle
togglePolygon ==
    /\ polygonMode' = ~polygonMode
    /\ IF polygonMode' THEN clearPolygon
       ELSE clearDrawingState /\ UNCHANGED <<polygonFinal, statsPanel>>
    /\ PolyOnly

\* the vertex bound of a drawing session
MaxPolyVerts == 4

\* map click in drawing mode; drawInProgress redraws the temporary layers
handleClick(latlng) ==
    /\ polygonMode
    /\ Len(polygonVertices) < MaxPolyVerts
    /\ LET verts == Append(polygonVertices, latlng)
       IN  /\ polygonVertices' = verts
           /\ tempVertexMarkers' = verts
           /\ tempPolyline' = IF Len(verts) >= 3 THEN Append(verts, verts[1])
                              ELSE IF Len(verts) >= 2 THEN verts ELSE <<>>
    /\ UNCHANGED <<polygonMode, polygonFinal, statsPanel>>
    /\ PolyOnly

\* handleDoubleClick without the test for 3 vertices
handleDoubleClick_NoMinimum ==
    /\ polygonMode
    /\ LET verts == IF Len(polygonVertices) > 1 THEN Front(polygonVertices)
                    ELSE polygonVertices
       IN  /\ polygonVertices' = verts
           /\ polygonMode' = FALSE
           /\ tempPolyline' = <<>>
           /\ tempVertexMarkers' = <<>>
           /\ polygonFinal' = verts
           /\ statsPanel' = [shown |-> TRUE, results |-> analyzePolygon(verts)]
    /\ PolyOnly

\* map double-click in drawing mode; finishPolygon when 3 vertices remain
handleDoubleClick ==
    /\ polygonMode
    /\ LET verts == IF Len(polygonVertices) > 1 THEN Front(polygonVertices)
                    ELSE polygonVertices
       IN  /\ polygonVertices' = verts
           /\ IF Len(verts) < 3
              THEN UNCHANGED <<polygonMode, tempVertexMarkers, tempPolyline,
                               polygonFinal, statsPanel>>
              ELSE /\ polygonMode' = FALSE
                   /\ tempPolyline' = <<>>
                   /\ tempVertexMarkers' = <<>>
                   /\ polygonFinal' = verts
                   /\ statsPanel' = [shown |-> TRUE, results |-> analyzePolygon(verts)]
    /\ PolyOnly

\* the Clear button of the stats panel
clear ==
    /\ statsPanel.shown
    /\ clearPolygon
    /\ UNCHANGED polygonMode
    /\ PolyOnly

(***************************************************************************)
(* Events that reach several modules                                       *)
(***************************************************************************)
\* keydown Escape.  The listener of app.js runs unless the key is typed in an
\* input element; the listener of CrossSectionModule is bound by init.
escapeKey(inInput) ==
    LET app == ~inInput
        off == active /\ (app \/ initialized)
    IN  /\ measureMode' = (IF app THEN FALSE ELSE measureMode)
        /\ measurePoints' = (IF app /\ measureMode THEN <<>> ELSE measurePoints)
        /\ measureLine' = (IF app /\ measureMode THEN FALSE ELSE measureLine)
        /\ active' = (IF off THEN FALSE ELSE active)
        /\ crossSectionMode' = (IF off THEN FALSE ELSE crossSectionMode)
        /\ currentMode' = (IF app THEN "view" ELSE IF off THEN savedMode ELSE currentMode)
        /\ transectMarkers' = (IF off THEN <<>> ELSE transectMarkers)
        /\ transectPoints' = (IF off THEN <<>> ELSE transectPoints)
        /\ transectLine' = (IF off THEN FALSE ELSE transectLine)
        /\ corridorPolygon' = (IF off THEN NoCorridor ELSE corridorPolygon)
        /\ collected' = (IF off THEN <<>> ELSE collected)
        /\ panelShown' = (IF off THEN FALSE ELSE panelShown)
        /\ panelCanvas' = (IF off THEN NoCanvas ELSE panelCanvas)
        /\ statusMsg' = (IF off THEN "hidden" ELSE statusMsg)
        /\ lastSamples' = (IF off THEN <<>> ELSE lastSamples)
        /\ polygonMode' = (IF app THEN FALSE ELSE polygonMode)
        /\ tempPolyline' = (IF app /\ polygonMode THEN <<>> ELSE tempPolyline)
        /\ tempVertexMarkers' = (IF app /\ polygonMode THEN <<>> ELSE tempVertexMarkers)
        /\ polygonVertices' = (IF app /\ polygonMode THEN <<>> ELSE polygonVertices)
        /\ UNCHANGED <<initialized, corridorWidthFt, savedMode, polygonFinal,
                       statsPanel>>
        /\ UNCHANGED <<unitVars, dataVars, anaVars, conVars, bufVars>>

\* the change listeners of the analyte selector, in the order they were
\* registered: the one bound by CrossSectionModule's init, which reads
\* AppState.currentAnalyte before it is updated, then the one of app.js
changeAnalyte(analyte) ==
    /\ analyte # currentAnalyte
    /\ currentAnalyte' = analyte
    /\ hotzoneLayer' = IF hotzoneVisible THEN createHotZoneGrid(gridSizeFt, analyte)
                       ELSE hotzoneLayer
    /\ contourLayer' = IF contourVisible THEN generateContour(analyte)
                       ELSE contourLayer
    /\ bufferLayer' = IF bufferVisible THEN createBufferZones(analyte, bufferRadiusFt)
                      ELSE bufferLayer
    /\ IF initialized /\ panelShown /\ Len(transectPoints) = 2
       THEN LET samples == collectSamples(transectPoints[1], transectPoints[2],
                                          corridorWidthFt, currentAnalyte)
            IN  /\ collected' = samples
                /\ IF samples # <<>> THEN renderPanel(samples, currentAnalyte)
                   ELSE UNCHANGED <<lastSamples, panelCanvas, panelShown>>
       ELSE UNCHANGED <<collected, lastSamples, panelCanvas, panelShown>>
    /\ UNCHANGED <<samples2025, eaSamples, testPits2025, soilBorings2025,
                   plannedPoints>>
    /\ UNCHANGED <<gridSizeFt, includePlannedInGaps, gapsVisible, gapLayer,
                   hotzoneVisible, contourVisible, bufferVisible, bufferRadiusFt>>
    /\ UNCHANGED <<initialized, active, corridorWidthFt, transectPoints,
                   transectMarkers, transectLine, corridorPolygon, savedMode,
                   statusMsg>>
    /\ UNCHANGED <<unitVars, uiVars, polyVars>>

(***************************************************************************)
(* The cross-section tool over loaded data                                 *)
(***************************************************************************)
\* where the map is clicked: (0,0)-(0,8) is a 6 m transect along a parallel,
\* (2,1) is closer than 3 m to (0,0), (0,4) is exactly 3 m from both ends
CrossClicks ==
    {LatLng(0, 0), LatLng(0, 8), LatLng(2, 1), LatLng(0, 4), LatLng(6, 8)}

\* parseInt of what is typed into the corridor input
CwInputs == {NaN, -5, 20}

\* arguments of setCorridorWidth
WidthArgs == {NaN, 5}

CrossNext ==
    \/ toggle
    \/ \E latlng \in CrossClicks : handleTransectClick(latlng)
    \/ \E parsed \in CwInputs : cwInputChange(parsed)
    \/ \E ft \in WidthArgs : setCorridorWidth(ft)
    \/ closePanel
    \/ \E inInput \in BOOLEAN : escapeKey(inInput)
    \/ \E analyte \in Analytes : changeAnalyte(analyte)
    \/ \E mode \in {"view", "proposed"} : setMode(mode)
    \/ toggleMeasureMode

(***************************************************************************)
(* Every analyte-dependent computation over loaded data                    *)
(***************************************************************************)
\* the outlines traced in drawing mode; the double-click that ends an
\* outline clicks its last vertex again
Outlines ==
    {<<LatLng(-1, -1), LatLng(-1, 14), LatLng(8, 5)>>,
     <<LatLng(5, 3), LatLng(-1, 3), LatLng(2, 10)>>}

NextVertex(outline) ==
    IF Len(polygonVertices) < Len(outline)
    THEN outline[Len(polygonVertices) + 1] ELSE outline[Len(outline)]

TransectEnds == {LatLng(0, 0), LatLng(0, 8)}

DataNext ==
    \/ toggleContour
    \/ toggleHotZones
    \/ togglePolygon
    \/ \E outline \in Outlines : handleClick(NextVertex(outline))
    \/ handleDoubleClick
    \/ clear
    \/ toggle
    \/ \E latlng \in TransectEnds : handleTransectClick(latlng)
    \/ \E analyte \in Analytes : changeAnalyte(analyte)


(***************************************************************************)
(* Start-up: restoreState                                                  *)
(***************************************************************************)
\* the state bindEventListeners leaves behind, before restoreState runs
AtPageLoad ==
    /\ currentAnalyte = "Mercury"
    /\ plannedPoints = <<>>
    /\ gridSizeFt = GridDefaultSizeFt
    /\ includePlannedInGaps = TRUE
    /\ ~gapsVisible /\ ~hotzoneVisible /\ ~contourVisible /\ ~bufferVisible
    /\ ~active /\ ~polygonMode /\ ~measureMode /\ currentMode = "view"
    /\ transectPoints = <<>> /\ polygonFinal = <<>>

\* what JSON.parse gives for the stored preferences; "none", 0 and "absent"
\* stand for a missing (or falsy) field, and a missing object is all three
StoredPrefs ==
    [currentAnalyte : {"none", "Arsenic"},
     gridSizeFt : {0, 10, 75, 500},
     includePlannedInGaps : {"absent", "off"}]

\* the analyte of the URL hash; "Bogus" has no entry in AppConfig.thresholds
UrlAnalytes == {"none", "Thallium", "Bogus"}

\* restoreState, run once by the DOMContentLoaded handler: preferences,
\* planned points, then the URL state (map view, dark mode and the layer
\* check boxes are not part of the state kept here)
restoreState(prefs, savedPoints, urlAnalyte) ==
    /\ AtPageLoad
    /\ currentAnalyte' =
          IF urlAnalyte \in Analytes THEN urlAnalyte
          ELSE IF prefs.currentAnalyte # "none" THEN prefs.currentAnalyte
          ELSE currentAnalyte
    /\ gridSizeFt' = IF prefs.gridSizeFt # 0 THEN prefs.gridSizeFt ELSE gridSizeFt
    /\ includePlannedInGaps' =
          IF prefs.includePlannedInGaps = "absent" THEN includePlannedInGaps
          ELSE prefs.includePlannedInGaps = "on"
    /\ plannedPoints' = plannedPoints \o savedPoints
    /\ UNCHANGED <<samples2025, eaSamples, testPits2025, soilBorings2025>>
    /\ UNCHANGED <<gapsVisible, gapLayer, hotzoneVisible, hotzoneLayer>>
    /\ UNCHANGED <<unitVars, conVars, bufVars, uiVars, csVars, polyVars>>

GridNext ==
    \/ \E prefs \in StoredPrefs, savedPoints \in SeqsUpTo(AnaPlanned, 0, MaxAnaPlanned),
          urlAnalyte \in UrlAnalytes : restoreState(prefs, savedPoints, urlAnalyte)
    \/ \E delta \in {25, -25} : adjustGridSize(delta)
    \/ toggleIncludePlanned

UnitIdle ==
    HullIdle /\ IdwIdle /\ ColIdle /\ GeoIdle /\ LayIdle /\ BhIdle /\ PlanIdle

AppIdle == ConIdle /\ BufIdle /\ UiIdle /\ CsIdle /\ PolyIdle

InitHull ==
    HullInit /\ IdwIdle /\ ColIdle /\ GeoIdle /\ LayIdle /\ BhIdle /\ PlanIdle /\ DataIdle /\ AnaIdle /\ AppIdle

SpecHull == InitHull /\ [][HullNext]_vars

InitIDW ==
    IdwInit /\ HullIdle /\ ColIdle /\ GeoIdle /\ LayIdle /\ BhIdle /\ PlanIdle /\ DataIdle /\ AnaIdle /\ AppIdle

SpecIDW == InitIDW /\ [][IdwNext]_vars

InitColor ==
    ColInit /\ HullIdle /\ IdwIdle /\ GeoIdle /\ LayIdle /\ BhIdle /\ PlanIdle /\ DataIdle /\ AnaIdle /\ AppIdle

SpecColor == InitColor /\ [][ColNext]_vars

InitAnalysis == AnaInit /\ UnitIdle /\ AppIdle

SpecAnalysis == InitAnalysis /\ [][AnaNext]_vars

InitCross == DataLoaded /\ UnitIdle /\ AnaIdle /\ AppIdle

SpecCross == InitCross /\ [][CrossNext]_vars

InitData == DataLoaded /\ UnitIdle /\ AnaIdle /\ AppIdle

SpecData == InitData /\ [][DataNext]_vars

InitRaster == RasterInit /\ UnitIdle /\ AnaIdle /\ AppIdle

SpecRaster == InitRaster /\ [][RasterNext]_vars

InitGrid ==
    /\ \E d \in DataSets :
          /\ samples2025 = d.samples2025
          /\ eaSamples = d.eaSamples
          /\ testPits2025 = d.testPits2025
          /\ soilBorings2025 = d.soilBorings2025
    /\ currentAnalyte = "Mercury"
    /\ plannedPoints = <<>>
    /\ UnitIdle /\ AnaIdle /\ AppIdle

SpecGrid == InitGrid /\ [][GridNext]_vars

InitPip ==
    PipInit /\ HullIdle /\ IdwIdle /\ ColIdle /\ LayIdle /\ BhIdle /\ PlanIdle /\ DataIdle /\ AnaIdle /\ AppIdle

SpecPip == InitPip /\ [][PipNext]_vars

InitArea ==
    AreaInit /\ HullIdle /\ IdwIdle /\ ColIdle /\ LayIdle /\ BhIdle /\ PlanIdle /\ DataIdle /\ AnaIdle /\ AppIdle

SpecArea == InitArea /\ [][AreaNext]_vars

InitLayout ==
    LayInit /\ HullIdle /\ IdwIdle /\ ColIdle /\ GeoIdle /\ BhIdle /\ PlanIdle /\ DataIdle /\ AnaIdle /\ AppIdle

SpecLayout == InitLayout /\ [][LayNext]_vars

InitBuffer ==
    BhInit /\ HullIdle /\ IdwIdle /\ ColIdle /\ GeoIdle /\ LayIdle /\ PlanIdle /\ DataIdle /\ AnaIdle /\ AppIdle

SpecBuffer == InitBuffer /\ [][BhNext]_vars

InitPlan ==
    /\ HullIdle /\ IdwIdle /\ ColIdle /\ GeoIdle /\ LayIdle /\ BhIdle
    /\ PlanIdle /\ DataIdle /\ AnaIdle /\ AppIdle

SpecPlan == InitPlan /\ [][PlanNext]_vars

SpecMeasure == InitPlan /\ [][MeasureNext]_vars

SpecUndoCap == InitPlan /\ [][CapNext]_vars

IdwNear(i) ==
    IdwDistSq(idwQuery.lat, idwQuery.lon, idwPoints[i]) < TickW * TickW

IdwIs(v) == idwOut.num = v * idwOut.den

\* C2 (as claimed): whenever the query point is less than 1 m from a sample s,
\* computeIDW returns exactly s.value, wherever s stands in the list.
C2_ExactForAnyNearSample ==
    idwPc = "done" =>
        \A i \in 1..Len(idwPoints) : IdwNear(i) => IdwIs(idwPoints[i].value)

\* C2 (amended): computeIDW returns exactly the value of the first sample of
\* the list that is less than 1 m from the query point; it is s.value when no
\* sample listed before s is also within 1 m.
C2_ExactForFirstNearSample ==
    idwPc = "done" =>
        \A i \in 1..Len(idwPoints) :
            (IdwNear(i) /\ \A j \in 1..(i - 1) : ~IdwNear(j))
                => IdwIs(idwPoints[i].value)

\* the query is within 1 m of a sample that is not the first of the list and
\* whose value differs from that of a farther sample
C2_Witness ==
    /\ idwPc = "done"
    /\ \E i \in 2..Len(idwPoints) :
          /\ IdwNear(i)
          /\ \A j \in 1..(i - 1) :
                ~IdwNear(j) /\ idwPoints[j].value # idwPoints[i].value

IdwMin == CHOOSE v \in {p.value : p \in Range(idwPoints)} :
              \A w \in {p.value : p \in Range(idwPoints)} : v <= w

IdwMax == CHOOSE v \in {p.value : p \in Range(idwPoints)} :
              \A w \in {p.value : p \in Range(idwPoints)} : v >= w

C1_HullContainsInputs ==
    hullPc = "tested" => \A i \in 1..Len(hullPoints) : hullInside[i]

Collinear(points) ==
    \A i, j, k \in 1..Len(points) : cross2D(points[i], points[j], points[k]) = 0

\* the same statement restricted to inputs that are not all on one line
C1_HullContainsNonCollinear ==
    (hullPc = "tested" /\ ~Collinear(hullPoints))
        => \A i \in 1..Len(hullPoints) : hullInside[i]

\* a degenerate input leaves a hull of fewer than 3 vertices
C1_DegenerateHullShort ==
    (hullPc = "tested" /\ Collinear(hullPoints)) => Len(hullOut) < 3

ColIs(v) == colPc = "done" /\ colValue.num = v * colValue.den

\* C4 (as claimed): for Mercury, threshold {low: 1, high: 204}, the value
\* 250 mg/kg is coloured exactly with the red stop (214, 62, 42).
C4_Mercury250IsRed ==
    (ColIs(250) /\ colThresh = MercuryThreshold) => colOut = C_RED

\* C4 (amended): for Mercury, threshold {low: 1, high: 204}, the value 250 is
\* coloured (234, 128, 43), the orange-to-red blend at (250 - 204) / 203; the
\* red stop is the colour of every value >= 407 = high + (high - low).
C4_Mercury250IsOrangeRed ==
    colThresh = MercuryThreshold =>
        /\ ColIs(250) => colOut = [r |-> 234, g |-> 128, b |-> 43]
        /\ (colPc = "done"
              /\ colValue.num >= (2 * MercuryHigh - MercuryLow) * colValue.den)
             => colOut = C_RED

C4_Witness ==
    ColIs(250) /\ colThresh = MercuryThreshold /\ colOut # C_RED

\* C5: for every threshold t, value 0 maps to the green stop, value t.low to
\* the yellow stop and, when t.low < t.high, value t.high to the orange stop.
C5_StopsAtThresholds ==
    /\ ColIs(0) => colOut = C_GREEN
    /\ ColIs(colThresh.low) => colOut = C_YELLOW
    /\ (ColIs(colThresh.high) /\ colThresh.low < colThresh.high)
          => colOut = C_ORANGE

\* a dual-threshold analyte asked about its high threshold
C5_Witness ==
    /\ ColIs(colThresh.high)
    /\ colThresh.low < colThresh.high
    /\ colOut = C_ORANGE

GapBox == BoxOf(GapBaseSamples)

GapCells == gapLayer.cells

\* two rectangles share area
GapOverlap(c, d) ==
    /\ c.lat < d.latMax
    /\ d.lat < c.latMax
    /\ c.lon < d.lonMax
    /\ d.lon < c.lonMax

GapNoOverlap == \A c, d \in GapCells : c # d => ~GapOverlap(c, d)

\* Every point of the padded box lies in a cell.  The cell edges cut the box
\* into elementary rectangles with no edge inside; each is covered as soon as
\* its lower-left corner is.
GapCoversBox ==
    LET latEdges == {GapBox.minLat} \cup
                       {e \in {c.lat : c \in GapCells} \cup {c.latMax : c \in GapCells} :
                           GapBox.minLat <= e /\ e < GapBox.maxLat}
        lonEdges == {GapBox.minLon} \cup
                       {e \in {c.lon : c \in GapCells} \cup {c.lonMax : c \in GapCells} :
                           GapBox.minLon <= e /\ e < GapBox.maxLon}
    IN  \A e \in latEdges, f \in lonEdges :
            \E c \in GapCells :
                /\ c.lat <= e /\ e < c.latMax
                /\ c.lon <= f /\ f < c.lonMax

GapInsideBox ==
    \A c \in GapCells :
        /\ GapBox.minLat <= c.lat /\ c.latMax <= GapBox.maxLat
        /\ GapBox.minLon <= c.lon /\ c.lonMax <= GapBox.maxLon

GapShown == gapLayer.on /\ GapBaseSamples # <<>>

\* C6 (as claimed): the rectangles of createGapGrid do not overlap and their
\* union is exactly the padded bounding box of the base samples: the box is
\* covered and no cell extends outside it.
C6_GapGridExactlyTilesBox ==
    GapShown => GapNoOverlap /\ GapCoversBox /\ GapInsideBox

\* number of steps of a loop "for (x = from; x < to; x += step)"
GapSteps(from, to, step) == (to - from + step - 1) \div step

\* C6 (amended): for a non-empty base sample set the rectangles do not
\* overlap and cover the padded box; every cell starts inside the box, and
\* the grid ends at the first multiple of the cell size at or past the far
\* side of the box, so the last row and column extend outside the box by less
\* than one cell unless the box side is a whole number of cells.
C6_GapGridCoversBoxWithOvershoot ==
    GapShown =>
        /\ GapNoOverlap
        /\ GapCoversBox
        /\ \A c \in GapCells :
              /\ GapBox.minLat <= c.lat /\ c.lat < GapBox.maxLat
              /\ GapBox.minLon <= c.lon /\ c.lon < GapBox.maxLon
              /\ c.latMax = c.lat + CellLatU(gridSizeFt)
              /\ c.lonMax = c.lon + CellLonU(gridSizeFt)
        /\ MaxOf({c.latMax : c \in GapCells}) =
              GapBox.minLat + CellLatU(gridSizeFt) *
                  GapSteps(GapBox.minLat, GapBox.maxLat, CellLatU(gridSizeFt))
        /\ MaxOf({c.lonMax : c \in GapCells}) =
              GapBox.minLon + CellLonU(gridSizeFt) *
                  GapSteps(GapBox.minLon, GapBox.maxLon, CellLonU(gridSizeFt))

\* a gap grid over two or more distinct base samples whose last row extends
\* past the padded box
C6_Witness ==
    /\ GapShown
    /\ Cardinality(Range(GapBaseSamples)) >= 2
    /\ \E c \in GapCells : c.latMax > GapBox.maxLat
    /\ \E c, d \in GapCells : c.lat # d.lat /\ c.lon # d.lon

\* a gap grid whose cells fit the padded box exactly
C6_ExactFit == GapShown /\ GapInsideBox

(***************************************************************************)
(* The cross-section tool: transect validation and corridor selection      *)
(***************************************************************************)
TransectDrawn == Len(transectPoints) = 2

MinTransectSq == (MinTransectM * TickW) * (MinTransectM * TickW)

C7_StateOk ==
    /\ Len(transectPoints) <= 2
    /\ transectMarkers = transectPoints
    /\ TransectDrawn =>
          distanceToSq(transectPoints[1], transectPoints[2]) >= MinTransectSq
    /\ transectLine <=> TransectDrawn
    /\ corridorPolygon.on <=> TransectDrawn
    /\ (panelShown \/ collected # <<>>) => TransectDrawn
    /\ statusMsg = "tooShort" => Len(transectPoints) = 1

\* what a click at latlng does when one endpoint is placed
C7_SecondClick(latlng) ==
    (handleTransectClick(latlng) /\ Len(transectPoints) = 1) =>
        IF distanceToSq(transectPoints[1], latlng) < MinTransectSq
        THEN /\ transectPoints' = transectPoints
             /\ transectMarkers' = transectMarkers
             /\ statusMsg' = "tooShort"
             /\ ~transectLine' /\ ~corridorPolygon'.on
             /\ collected' = <<>> /\ ~panelShown' /\ lastSamples' = <<>>
        ELSE /\ transectPoints' = <<transectPoints[1], latlng>>
             /\ transectLine' /\ corridorPolygon'.on

\* C7: a second click less than 3 m from the first is rejected (the point
\* and its marker are dropped, the first point stays, no line, corridor or
\* collection results) and one at 3 m or more is accepted; transectPoints
\* never has more than 2 entries, and has 2 only when they are at least 3 m
\* apart.
C7_ShortTransectRejected ==
    /\ []C7_StateOk
    /\ [][\A latlng \in CrossClicks : C7_SecondClick(latlng)]_vars

\* a second click closer than 3 m has just been rejected
C7_Witness ==
    /\ statusMsg = "tooShort"
    /\ Len(transectPoints) = 1
    /\ \E latlng \in CrossClicks :
          /\ latlng # transectPoints[1]
          /\ distanceToSq(transectPoints[1], latlng) < MinTransectSq

\* every sample or depth interval collectSamples looks at
CandidatesFor(analyte) ==
    {[type |-> "SS", id |-> i, k |-> 1, lat |-> samples2025[i].lat,
      lon |-> samples2025[i].lon,
      value |-> getSampleValue(samples2025[i], analyte, FALSE)] :
        i \in {j \in 1..Len(samples2025) : samples2025[j].sampled}}
    \cup
    {[type |-> "EA", id |-> i, k |-> 1, lat |-> eaSamples[i].lat,
      lon |-> eaSamples[i].lon,
      value |-> getSampleValue(eaSamples[i], analyte, TRUE)] :
        i \in 1..Len(eaSamples)}
    \cup
    UNION {{[type |-> "TP", id |-> i, k |-> k, lat |-> testPits2025[i].lat,
             lon |-> testPits2025[i].lon,
             value |-> IF testPits2025[i].depths[k].hasMetals
                       THEN testPits2025[i].depths[k].metals[analyte]
                       ELSE Null] :
               k \in 1..Len(testPits2025[i].depths)} : i \in 1..Len(testPits2025)}
    \cup
    UNION {{[type |-> "SB", id |-> i, k |-> k, lat |-> soilBorings2025[i].lat,
             lon |-> soilBorings2025[i].lon,
             value |-> IF soilBorings2025[i].depths[k].hasMetals
                       THEN soilBorings2025[i].depths[k].metals[analyte]
                       ELSE Null] :
               k \in 1..Len(soilBorings2025[i].depths)} :
              i \in 1..Len(soilBorings2025)}

Candidates == CandidatesFor(currentAnalyte)

\* the depth interval of a candidate, in half feet
DepthsOf(c) ==
    IF c.type = "TP" THEN testPits2025[c.id].depths[c.k]
    ELSE IF c.type = "SB" THEN soilBorings2025[c.id].depths[c.k]
    ELSE [start |-> 0, end |-> 1]

\* the records of the collected sequence that stand for candidate c
RecordsOf(c) ==
    {n \in 1..Len(collected) :
        /\ collected[n].type = c.type
        /\ collected[n].id = c.id
        /\ collected[n].depthStart = DepthsOf(c).start
        /\ collected[n].depthEnd = DepthsOf(c).end
        /\ collected[n].lat = c.lat
        /\ collected[n].lon = c.lon}

Selected(c) == RecordsOf(c) # {}

\* plane geometry of a point against the transect a -> b, in (1 / TickW) m
AlongDot(c, a, b) ==
    (c.lat - a.lat) * LatW * (b.lat - a.lat) * LatW
    + (c.lon - a.lon) * LonW * (b.lon - a.lon) * LonW

AcrossCross(c, a, b) ==
    (c.lat - a.lat) * LatW * (b.lon - a.lon) * LonW
    - (c.lon - a.lon) * LonW * (b.lat - a.lat) * LatW

\* c projects onto the line between the endpoints
BetweenEnds(c, a, b) ==
    0 <= AlongDot(c, a, b) /\ AlongDot(c, a, b) <= distanceToSq(a, b)

\* the perpendicular distance of c to the line through a and b is at most
\* ft feet
PerpWithin(c, a, b, ft) ==
    WithinFeet(AcrossCross(c, a, b) * AcrossCross(c, a, b), distanceToSq(a, b), ft)

\* the distance of c to the nearest point of the segment is at most ft feet
SegmentWithin(c, a, b, ft) ==
    IF AlongDot(c, a, b) < 0 THEN WithinFeet(distanceToSq(c, a), 1, ft)
    ELSE IF AlongDot(c, a, b) > distanceToSq(a, b)
         THEN WithinFeet(distanceToSq(c, b), 1, ft)
         ELSE PerpWithin(c, a, b, ft)

OnTransect(c, a, b) == AcrossCross(c, a, b) = 0 /\ BetweenEnds(c, a, b)

InCorridorRectangle(c) ==
    /\ corridorPolygon.halfWidthFt # NaN
    /\ BetweenEnds(c, corridorPolygon.a, corridorPolygon.b)
    /\ PerpWithin(c, corridorPolygon.a, corridorPolygon.b,
                  corridorPolygon.halfWidthFt)

\* C9 (as claimed): the samples collectSamples selects are those inside the
\* rectangle drawn as the corridor; a sample beyond an endpoint is never
\* selected.
C9_SelectedAreInsideRectangle ==
    (TransectDrawn /\ corridorPolygon.on) =>
        \A c \in Candidates : Selected(c) <=> InCorridorRectangle(c)

(***************************************************************************)
(* Samples without a value for the analyte                                 *)
(***************************************************************************)
\* the samples that carry a value for the analyte, as [lat, lon, value]
Valued2025(analyte) ==
    {i \in 1..Len(samples2025) :
        /\ samples2025[i].sampled
        /\ samples2025[i].hasMetals
        /\ samples2025[i].metals[analyte] # Null}

ValuedEA(analyte) ==
    {i \in 1..Len(eaSamples) : getSampleValue(eaSamples[i], analyte, TRUE) # Null}

ValuedPoints(analyte) ==
    {[lat |-> samples2025[i].lat, lon |-> samples2025[i].lon,
      value |-> samples2025[i].metals[analyte]] : i \in Valued2025(analyte)}
    \cup
    {[lat |-> eaSamples[i].lat, lon |-> eaSamples[i].lon,
      value |-> getSampleValue(eaSamples[i], analyte, TRUE)] : i \in ValuedEA(analyte)}

\* the interpolation points of the contour are exactly the valued samples
ContourSkipsMissing ==
    contourLayer.on =>
        /\ Len(contourLayer.points) =
              Cardinality(Valued2025(currentAnalyte))
              + Cardinality(ValuedEA(currentAnalyte))
        /\ Range(contourLayer.points) = ValuedPoints(currentAnalyte)

\* every hot-zone cell has a valued sample in range and is coloured by the
\* largest value among the valued samples in range
HotZoneSkipsMissing ==
    hotzoneLayer.on =>
        \A cell \in hotzoneLayer.cells :
            LET near == {p \in ValuedPoints(currentAnalyte) :
                            WithinRadius(cell.lat + CellLatU(gridSizeFt) \div 2,
                                         cell.lon + CellLonU(gridSizeFt) \div 2,
                                         p, gridSizeFt)}
            IN  /\ near # {}
                /\ cell.color =
                      HotZoneColor(MaxOf({p.value : p \in near} \cup {0}),
                                   AnalyteThresholds[currentAnalyte])

\* the statistics of every analyte are those of the valued samples inside
PolygonSkipsMissing ==
    statsPanel.shown =>
        \A a \in Analytes :
            LET in25 == {i \in Valued2025(a) :
                            pointInPolygon(samples2025[i].lat, samples2025[i].lon,
                                           polygonFinal)}
                inEA == {i \in ValuedEA(a) :
                            pointInPolygon(eaSamples[i].lat, eaSamples[i].lon,
                                           polygonFinal)}
                vals == {samples2025[i].metals[a] : i \in in25}
                        \cup {getSampleValue(eaSamples[i], a, TRUE) : i \in inEA}
                st == statsPanel.results.stats[a]
            IN  /\ st.count = Cardinality(in25) + Cardinality(inEA)
                /\ st.mean.den = st.count
                /\ st.exceedances <= st.count
                /\ st.min = (IF vals = {} THEN Null ELSE MinOf(vals))
                /\ st.max = (IF vals = {} THEN Null ELSE MaxOf(vals))

\* C10 (as claimed): a sample or depth interval without a value for the
\* selected analyte gives no point to the interpolation, no value to
\* hot-zone maxima or polygon statistics, and no interval record to the
\* sequence returned by collectSamples.
C10_MissingValueLeftOutEverywhere ==
    /\ ContourSkipsMissing
    /\ HotZoneSkipsMissing
    /\ PolygonSkipsMissing
    /\ \A n \in 1..Len(collected) : collected[n].value # Null

\* C10 (amended): a sample without a value for the analyte gives no point to
\* the interpolation and no value to hot-zone maxima or polygon statistics;
\* collectSamples returns one record for every sample or depth interval in
\* the corridor, with a null value when the interval has none.
C10_MissingValueKeptOnlyInTransect ==
    /\ ContourSkipsMissing
    /\ HotZoneSkipsMissing
    /\ PolygonSkipsMissing
    /\ (TransectDrawn /\ panelShown) =>
          \A c \in CandidatesFor(panelCanvas.analyte) :
              /\ (corridorWidthFt # NaN
                  /\ SegmentWithin(c, transectPoints[1], transectPoints[2],
                                   corridorWidthFt)) => Selected(c)
              /\ \A n \in RecordsOf(c) : collected[n].value = c.value

\* contour, hot zones and polygon statistics are shown over data with a
\* sample that has no value for the analyte, and the transect returned a
\* record without a value
C10_Witness ==
    /\ contourLayer.on
    /\ hotzoneLayer.on /\ hotzoneLayer.cells # {}
    /\ statsPanel.shown
    /\ \E i \in 1..Len(samples2025) :
          /\ samples2025[i].sampled /\ samples2025[i].hasMetals
          /\ samples2025[i].metals[currentAnalyte] = Null
          /\ pointInPolygon(samples2025[i].lat, samples2025[i].lon, polygonFinal)
    /\ statsPanel.results.stats[currentAnalyte].count > 0
    /\ TransectDrawn /\ panelShown
    /\ \E n \in 1..Len(collected) : collected[n].value = Null

(***************************************************************************)
(* Analyte selection                                                       *)
(***************************************************************************)
\* every analyte-dependent product on display is the one of the analyte
ProductsFor(analyte) ==
    /\ hotzoneVisible => hotzoneLayer = createHotZoneGrid(gridSizeFt, analyte)
    /\ contourVisible => contourLayer = generateContour(analyte)
    /\ bufferVisible => bufferLayer = createBufferZones(analyte, bufferRadiusFt)
    /\ (panelShown /\ TransectDrawn) =>
          /\ panelCanvas.analyte = analyte
          /\ panelCanvas.samples =
                collectSamples(transectPoints[1], transectPoints[2],
                               corridorWidthFt, analyte)

\* C11 (as claimed): once a change of the analyte selection has been handled,
\* the hot-zone grid, the contour overlay, the buffer zones and the
\* cross-section panel of a drawn transect, as far as they are displayed,
\* are those of the newly selected analyte.
C11_ProductsFollowAnalyte ==
    [][\A analyte \in Analytes : changeAnalyte(analyte) => ProductsFor(analyte)']_vars

(***************************************************************************)
(* Contour: too few points                                                 *)
(***************************************************************************)
\* how many samples carry a value for the analyte
ValuedCount(analyte) ==
    Cardinality(Valued2025(analyte)) + Cardinality(ValuedEA(analyte))

\* C12: with fewer than 3 samples that carry a value for the selected
\* analyte generateContour leaves no surface: whenever the contour is
\* switched on for such an analyte AppState.contourLayer is null (an overlay
\* shown before is gone), and an overlay on the map always rests on at least
\* 3 valued samples of the selected analyte.
C12_NoContourBelowThreePoints ==
    /\ (contourVisible /\ ValuedCount(currentAnalyte) < 3) => contourLayer = NoContour
    /\ contourLayer.on =>
          /\ contourVisible
          /\ ValuedCount(currentAnalyte) >= 3
          /\ Len(contourLayer.points) = ValuedCount(currentAnalyte)
    /\ (contourVisible /\ ValuedCount(currentAnalyte) >= 3) => contourLayer.on

\* the contour is switched on over data that draws a surface for another
\* analyte, the selected analyte has 1 or 2 valued samples and no overlay
\* is left
C12_Witness ==
    /\ contourVisible
    /\ ValuedCount(currentAnalyte) \in {1, 2}
    /\ contourLayer = NoContour
    /\ \E a \in Analytes : ValuedCount(a) >= 3

C14_CorridorWidthWithinBounds ==
    /\ corridorWidthFt # NaN
    /\ MinCorridorFt <= corridorWidthFt
    /\ corridorWidthFt <= MaxCorridorFt

(***************************************************************************)
(* Gap grid: cell classification                                           *)
(***************************************************************************)
\* p is within the search radius (the cell size) of the centre of cell
NearCell(cell, p) ==
    WithinRadius(cell.lat + (cell.latMax - cell.lat) \div 2,
                 cell.lon + (cell.lonMax - cell.lon) \div 2, p, gridSizeFt)

\* the samples counted for a cell: sampled 2025 samples, EA samples and,
\* iff includePlannedInGaps is on, planned points
NearbyCount(cell) ==
    Cardinality({i \in 1..Len(samples2025) :
                    samples2025[i].sampled /\ NearCell(cell, samples2025[i])})
    + Cardinality({i \in 1..Len(eaSamples) : NearCell(cell, eaSamples[i])})
    + (IF includePlannedInGaps
       THEN Cardinality({i \in 1..Len(plannedPoints) : NearCell(cell, plannedPoints[i])})
       ELSE 0)

\* C15: every gap-grid cell is red iff no sample is within the search radius
\* of its centre, yellow iff 1 or 2 are and green iff 3 or more are, planned
\* points counting iff includePlannedInGaps is on; a cell without a nearby
\* sample is drawn too (one rectangle for every grid position).
C15_GapCellClassification ==
    GapShown =>
        /\ \A cell \in GapCells :
              /\ cell.color = "#ff0000" <=> NearbyCount(cell) = 0
              /\ cell.color = "#ffff00" <=> NearbyCount(cell) \in {1, 2}
              /\ cell.color = "#00ff00" <=> NearbyCount(cell) >= 3
        /\ \A lat \in LoopValues(GapBox.minLat, GapBox.maxLat, CellLatU(gridSizeFt)),
              lon \in LoopValues(GapBox.minLon, GapBox.maxLon, CellLonU(gridSizeFt)) :
              \E cell \in GapCells : cell.lat = lat /\ cell.lon = lon
        /\ Cardinality(GapCells) =
              GapSteps(GapBox.minLat, GapBox.maxLat, CellLatU(gridSizeFt))
              * GapSteps(GapBox.minLon, GapBox.maxLon, CellLonU(gridSizeFt))

\* a grid with a red, a yellow and a green cell, the yellow one owing its
\* count to a planned point
C15_Witness ==
    /\ GapShown
    /\ includePlannedInGaps
    /\ \E red, yellow, green \in GapCells :
          /\ red.color = "#ff0000"
          /\ yellow.color = "#ffff00"
          /\ green.color = "#00ff00"
          /\ \E i \in 1..Len(plannedPoints) : NearCell(yellow, plannedPoints[i])

(***************************************************************************)
(* Hot-zone grid: cell classification                                      *)
(***************************************************************************)
\* the values of the valued samples within the search radius of the centre
\* of the grid position (lat, lon)
ValuesInRange(lat, lon) ==
    {p.value : p \in {q \in ValuedPoints(currentAnalyte) :
        WithinRadius(lat + CellLatU(gridSizeFt) \div 2,
                     lon + CellLonU(gridSizeFt) \div 2, q, gridSizeFt)}}

\* the grid positions createHotZoneGrid visits
HotZonePositions ==
    IF ValuedPoints(currentAnalyte) = {} THEN {}
    ELSE LET lats == {p.lat : p \in ValuedPoints(currentAnalyte)}
             lons == {p.lon : p \in ValuedPoints(currentAnalyte)}
         IN  LoopValues(MinOf(lats) * GridScale - PadU,
                        MaxOf(lats) * GridScale + PadU, CellLatU(gridSizeFt))
             \X LoopValues(MinOf(lons) * GridScale - PadU,
                           MaxOf(lons) * GridScale + PadU, CellLonU(gridSizeFt))

\* C16: a hot-zone cell with a valued sample in range is red iff the
\* largest value in range is above thresh.high, orange iff it is above
\* thresh.low and not above thresh.high, green otherwise; a grid position
\* with no valued sample in range gets no rectangle.
C16_HotZoneCellClassification ==
    hotzoneLayer.on =>
        LET thresh == AnalyteThresholds[currentAnalyte]
        IN  /\ \A cell \in hotzoneLayer.cells :
                  LET vals == ValuesInRange(cell.lat, cell.lon)
                  IN  /\ vals # {}
                      /\ <<cell.lat, cell.lon>> \in HotZonePositions
                      /\ cell.color = "#ff0000" <=> MaxOf(vals) > thresh.high
                      /\ cell.color = "#ff9900" <=>
                            (MaxOf(vals) > thresh.low /\ MaxOf(vals) <= thresh.high)
                      /\ cell.color = "#00cc00" <=> MaxOf(vals) <= thresh.low
            /\ \A pos \in HotZonePositions :
                  (\E cell \in hotzoneLayer.cells :
                      cell.lat = pos[1] /\ cell.lon = pos[2])
                  <=> ValuesInRange(pos[1], pos[2]) # {}

\* a hot-zone grid with a red cell, an orange cell and a grid position that
\* is left out
C16_Witness ==
    /\ hotzoneLayer.on
    /\ \E red, orange \in hotzoneLayer.cells :
          red.color = "#ff0000" /\ orange.color = "#ff9900"
    /\ \E pos \in HotZonePositions : ValuesInRange(pos[1], pos[2]) = {}

\* a hot-zone cell whose largest value equals thresh.low is green
C16_GreenAtLow ==
    /\ hotzoneLayer.on
    /\ \E cell \in hotzoneLayer.cells :
          /\ cell.color = "#00cc00"
          /\ MaxOf(ValuesInRange(cell.lat, cell.lon))
                = AnalyteThresholds[currentAnalyte].low

(***************************************************************************)
(* Polygon statistics                                                      *)
(***************************************************************************)
\* the samples analyzePolygon takes as inside the finished polygon, tagged
\* with their dataset
InsidePolygon ==
    {<<"SS", i>> : i \in {j \in 1..Len(samples2025) :
        /\ samples2025[j].sampled /\ samples2025[j].hasMetals
        /\ pointInPolygon(samples2025[j].lat, samples2025[j].lon, polygonFinal)}}
    \cup
    {<<"EA", i>> : i \in {j \in 1..Len(eaSamples) :
        pointInPolygon(eaSamples[j].lat, eaSamples[j].lon, polygonFinal)}}

InsideValue(e, analyte) ==
    IF e[1] = "SS" THEN samples2025[e[2]].metals[analyte]
    ELSE getSampleValue(eaSamples[e[2]], analyte, TRUE)

RECURSIVE SumInside(_, _)
SumInside(S, analyte) ==
    IF S = {} THEN 0
    ELSE LET e == CHOOSE x \in S : TRUE
         IN  InsideValue(e, analyte) + SumInside(S \ {e}, analyte)

C17_EmptyPolygon ==
    /\ statsPanel.shown
    /\ statsPanel.results.totalSamples = 0

(***************************************************************************)
(* Point in polygon                                                        *)
(***************************************************************************)
\* p lies strictly inside the triangle a, b, c
StrictlyInTriangle(p, a, b, c) ==
    \/ Orient(a, b, p) > 0 /\ Orient(b, c, p) > 0 /\ Orient(c, a, p) > 0
    \/ Orient(a, b, p) < 0 /\ Orient(b, c, p) < 0 /\ Orient(c, a, p) < 0

\* p lies on the segment from a to b, ends included
OnSegment(p, a, b) ==
    /\ Orient(a, b, p) = 0
    /\ (a.lat <= p.lat /\ p.lat <= b.lat) \/ (b.lat <= p.lat /\ p.lat <= a.lat)
    /\ (a.lon <= p.lon /\ p.lon <= b.lon) \/ (b.lon <= p.lon /\ p.lon <= a.lon)

OnBoundary(p, v) ==
    \E i \in 1..Len(v) : OnSegment(p, v[i], v[(i % Len(v)) + 1])

\* p is an interior point of the simple polygon v, by triangulation
InteriorPoint(p, v) ==
    IF Len(v) = 3 THEN StrictlyInTriangle(p, v[1], v[2], v[3])
    ELSE IF SplitBy(v[1], v[3], v[2], v[4])
         THEN \/ StrictlyInTriangle(p, v[1], v[2], v[3])
              \/ StrictlyInTriangle(p, v[1], v[3], v[4])
              \/ OnSegment(p, v[1], v[3]) /\ p # v[1] /\ p # v[3]
         ELSE \/ StrictlyInTriangle(p, v[2], v[3], v[4])
              \/ StrictlyInTriangle(p, v[2], v[4], v[1])
              \/ OnSegment(p, v[2], v[4]) /\ p # v[2] /\ p # v[4]

\* C18: for a simple polygon of at least 3 vertices and a point off its
\* boundary, pointInPolygon is true iff the point is inside the polygon,
\* whatever the orientation of the vertex list and whichever vertex it
\* starts with.
C18_RayCastDecidesInside ==
    (geoPc = "done" /\ ~OnBoundary(geoPoint, geoVerts)) =>
        /\ geoInside <=> InteriorPoint(geoPoint, geoVerts)
        /\ \A k \in 0..(Len(geoVerts) - 1) :
              /\ pointInPolygon(geoPoint.lat, geoPoint.lon, Rotated(geoVerts, k))
                    = geoInside
              /\ pointInPolygon(geoPoint.lat, geoPoint.lon,
                                Reverse(Rotated(geoVerts, k))) = geoInside

\* a point inside a quadrilateral with a reflex corner, level with one of
\* the vertices to its right
C18_Witness ==
    /\ geoPc = "done"
    /\ Len(geoVerts) = 4
    /\ \E i \in 1..4 :
          StrictlyInTriangle(geoVerts[i], geoVerts[(i % 4) + 1],
                             geoVerts[((i + 1) % 4) + 1], geoVerts[((i + 2) % 4) + 1])
    /\ ~OnBoundary(geoPoint, geoVerts)
    /\ geoInside
    /\ \E i \in 1..4 : geoVerts[i].lat = geoPoint.lat /\ geoVerts[i].lon > geoPoint.lon

\* a point outside, off the boundary, whose ray passes through a vertex
C18_OutsideThroughVertex ==
    /\ geoPc = "done"
    /\ ~OnBoundary(geoPoint, geoVerts)
    /\ ~geoInside
    /\ \E i \in 1..Len(geoVerts) :
          geoVerts[i].lat = geoPoint.lat /\ geoVerts[i].lon > geoPoint.lon

(***************************************************************************)
(* Polygon area                                                            *)
(***************************************************************************)
\* the side of the square geoVerts in feet, as a fraction, from its extent
\* in latitude and from its extent in longitude
SideFtByLat ==
    [num |-> (MaxOf({v.lat : v \in Range(geoVerts)})
              - MinOf({v.lat : v \in Range(geoVerts)})) * LatW * FeetToMetersDen,
     den |-> TickW * FeetToMetersNum]

SideFtByLon ==
    [num |-> (MaxOf({v.lon : v \in Range(geoVerts)})
              - MinOf({v.lon : v \in Range(geoVerts)})) * LonW * FeetToMetersDen,
     den |-> TickW * FeetToMetersNum]

\* C19: for an axis-aligned square of side s feet calculateAreaSqFt returns
\* s * s, whichever corner the vertex list starts at and in whichever
\* direction it runs.
C19_SquareAreaIsSideSquared ==
    geoPc = "done" =>
        /\ SideFtByLat.num * SideFtByLon.den = SideFtByLon.num * SideFtByLat.den
        /\ geoArea.num * SideFtByLat.den * SideFtByLat.den
              = SideFtByLat.num * SideFtByLat.num * geoArea.den
        /\ \A k \in 0..3 :
              /\ calculateAreaSqFt(Rotated(geoVerts, k)) = geoArea
              /\ calculateAreaSqFt(Reverse(Rotated(geoVerts, k))) = geoArea

\* the area of a square listed clockwise from a corner that is not its
\* south-west one
C19_Witness ==
    /\ geoPc = "done"
    /\ calculateAreaSqFt_Signed(geoVerts).num < 0
    /\ \E v \in Range(geoVerts) : v.lat < geoVerts[1].lat /\ v.lon < geoVerts[1].lon
    /\ geoArea.num = 400 * geoArea.den

(***************************************************************************)
(* C20: for columns that fit in the plot (number of columns times minGap   *)
(* at most the plot width), resolveOverlaps returns an overlap-free        *)
(* layout: any two columns are at least minGap apart, and every column     *)
(* lies within [plotLeft + COLUMN_WIDTH_PX/2, plotRight - COLUMN_WIDTH_PX/2]*)
(***************************************************************************)
ColumnsFit == Len(layPositions) * MinGap <= PlotRight - PlotLeft

Distance(a, b) == IF a >= b THEN a - b ELSE b - a

ColumnsApart ==
    \A i, j \in 1..Len(layOut) :
        i # j => Distance(layOut[i].x, layOut[j].x) >= MinGap

ColumnsInPlot ==
    \A i \in 1..Len(layOut) :
        /\ layOut[i].x >= PlotLeft + Px(COLUMN_WIDTH_PX) \div 2
        /\ layOut[i].x <= PlotRight - Px(COLUMN_WIDTH_PX) \div 2

C20_LayoutIsOverlapFree ==
    (layPc = "done" /\ ColumnsFit) => (ColumnsApart /\ ColumnsInPlot)

(***************************************************************************)
(* C21: for a convex hull of at least 3 vertices and bufferMeters > 0, the *)
(* polygon returned by bufferConvexHull has an area at least that of the   *)
(* input hull                                                              *)
(***************************************************************************)
\* twice the area of a polygon, by the shoelace formula
RECURSIVE CrossSum(_, _)
CrossSum(poly, i) ==
    IF i > Len(poly) THEN 0
    ELSE LET j == (i % Len(poly)) + 1
         IN  poly[i].lon * poly[j].lat - poly[j].lon * poly[i].lat
               + CrossSum(poly, i + 1)

TwiceArea(poly) == Abs(CrossSum(poly, 1))

C21_BufferedHullNotSmaller ==
    (bhPc = "done" /\ Len(bhHull) >= 3 /\ bhMeters > 0)
        => TwiceArea(bhOut) >= CoordScale * CoordScale * TwiceArea(bhHull)

C21_Witness ==
    /\ bhPc = "done"
    /\ Len(bhHull) >= 4
    /\ bhMeters = 1
    /\ TwiceArea(bhOut) > CoordScale * CoordScale * TwiceArea(bhHull)

(***************************************************************************)
(* C22: after every completed operation on the planned points (add by      *)
(* popup or by coordinates, drag, edit, delete, clear all, undo, redo) the *)
(* copy persisted by StorageModule equals AppState.plannedPoints in id,    *)
(* type, lat, lon, depth, note and color, so that restorePlannedPoints     *)
(* after a reload returns the same points                                  *)
(***************************************************************************)
PointFields(p) ==
    [id |-> p.id, type |-> p.type, lat |-> p.lat, lon |-> p.lon,
     depth |-> p.depth, note |-> p.note, color |-> p.color]

C23_ActiveToolKeepsViewMode == active => currentMode = "view"

(***************************************************************************)
(* C24: in every reachable state no two entries of AppState.plannedPoints  *)
(* have the same id, under any sequence of showAddPointPopup,              *)
(* confirmAddPoint, cancelAddPoint, addFromCoordinates, delete, undo, redo *)
(* and clearAllPlanned                                                     *)
(***************************************************************************)
C24_PlannedIdsAreUnique ==
    \A i, j \in 1..Len(plannedPoints) :
        i # j => plannedPoints[i].id # plannedPoints[j].id

(***************************************************************************)
(* C25: for each action type (add_point, delete_point, move_point,         *)
(* edit_point) undo() reverts plannedPoints to its state before the last   *)
(* action and moves that action to the redo stack, and a redo() right      *)
(* after restores plannedPoints and moves the action back to the undo      *)
(* stack.  Stated on the stacks: an undo step takes the top action of      *)
(* undoStack and puts it on top of redoStack, a redo step does the         *)
(* reverse, and the ids in plannedPoints change as the action says.        *)
(***************************************************************************)
ActionKey(a) == [type |-> a.type, id |-> a.data.id]

Keys(stack) == [i \in 1..Len(stack) |-> ActionKey(stack[i])]

IdsOf(points) == {points[i].id : i \in 1..Len(points)}

C25_UndoMoves ==
    undo => /\ Keys(undoStack') = Keys(Front(undoStack))
            /\ Keys(redoStack') = Keys(Append(redoStack, undoStack[Len(undoStack)]))
            /\ undoStack[Len(undoStack)].type = "add_point"
                  => undoStack[Len(undoStack)].data.id \notin IdsOf(plannedPoints')

C25_RedoMoves ==
    redo => /\ Keys(redoStack') = Keys(Front(redoStack))
            /\ Keys(undoStack') = Keys(Append(undoStack, redoStack[Len(redoStack)]))
            /\ redoStack[Len(redoStack)].type = "delete_point"
                  => redoStack[Len(redoStack)].data.id \notin IdsOf(plannedPoints')

C25_UndoRedoMoveTheAction == [][C25_UndoMoves /\ C25_RedoMoves]_vars

(***************************************************************************)
(* C26: after any sequence of edits, undo and redo, once an operation has  *)
(* completed undoStack holds at most maxUndoSize (50) actions, and a push  *)
(* onto a full undo stack discards the oldest action                       *)
(***************************************************************************)
UndoStackCapped == Len(undoStack) <= maxUndoSize

C26_PushOnFull ==
    /\ Len(undoStack) = maxUndoSize
    /\ \/ deleteFromList(1)
       \/ \E marker \in plannedMarkers :
             savePointNote(marker.pointId, DeepEdit.note, DeepEdit.depth)

C26_PushDiscardsOldest ==
    C26_PushOnFull =>
        /\ Len(undoStack') = maxUndoSize
        /\ Keys(Front(undoStack')) = Keys(Tail(undoStack))
        /\ redoStack' = <<>>

C26_UndoStackIsCapped == []UndoStackCapped /\ [][C26_PushDiscardsOldest]_vars

\* a full undo stack of edits only: the add_point (or delete_point) that
\* every history starts with has been discarded
C26_Witness ==
    /\ Len(undoStack) = maxUndoSize
    /\ \A i \in 1..Len(undoStack) : undoStack[i].type = "edit_point"

(***************************************************************************)
(* C27: a drawn polygon is finished and analysed only with at least 3      *)
(* vertices: the finished polygon and the polygon behind the statistics    *)
(* shown have 3 vertices or more, and a double-click that leaves fewer     *)
(* than 3 vertices keeps the drawing mode on and shows no statistics       *)
(***************************************************************************)
FinishedHasThreeVertices ==
    /\ polygonFinal # <<>> => Len(polygonFinal) >= 3
    /\ statsPanel.shown => Len(polygonFinal) >= 3

C27_ShortDoubleClick ==
    (handleDoubleClick /\ Len(polygonVertices') < 3) =>
        /\ polygonMode'
        /\ ~statsPanel'.shown
        /\ polygonFinal' = <<>>

C27_PolygonNeedsThreeVertices ==
    []FinishedHasThreeVertices /\ [][C27_ShortDoubleClick]_vars

\* drawing goes on after a double-click that left 2 vertices
C27_Witness ==
    /\ polygonMode
    /\ Len(polygonVertices) = 2
    /\ Len(tempVertexMarkers) = 3
    /\ ~statsPanel.shown

(***************************************************************************)
(* C28: the 3-second auto-clear timer scheduled when a distance            *)
(* measurement completes only ever clears that completed measurement:      *)
(* under any interleaving of map clicks, measure-mode toggles and timer    *)
(* expiry it removes no point or marker of a measurement started after it  *)
(* was scheduled, and AppState.measurePoints never holds more than 2       *)
(* points                                                                  *)
(***************************************************************************)
C28_TimeoutClearsItsOwn ==
    measureTimeout =>
        \A i \in 1..Len(measurePoints) :
            measurePoints[i].marker \in measureTimers[1].markers

AtMostTwoPoints == Len(measurePoints) <= 2

C28_TimerClearsOnlyItsMeasurement ==
    []AtMostTwoPoints /\ [][C28_TimeoutClearsItsOwn]_vars

(***************************************************************************)
(* C29: the contour raster spans exactly the bounds it is attached to:     *)
(* rows * cellLat >= maxLat - minLat and cols * cellLon >= maxLon - minLon *)
(* with less than one cell of overshoot, also when the row and column      *)
(* counts are clamped to 1000, so that the coordinate interpolated for     *)
(* pixel (row, col) is the place the pixel takes in the overlay.  Lengths  *)
(* are compared in units of 1 / TickW metre.                               *)
(***************************************************************************)
CellUnits == GRID_METERS * TickW

RowsSpan(c) ==
    /\ c.rows * CellUnits >= (c.maxLat - c.minLat) * LatW
    /\ (c.rows - 1) * CellUnits < (c.maxLat - c.minLat) * LatW

ColsSpan(c) ==
    /\ c.cols * CellUnits >= (c.maxLon - c.minLon) * LonW
    /\ (c.cols - 1) * CellUnits < (c.maxLon - c.minLon) * LonW

C29_RasterSpansBounds ==
    contourLayer.on => RowsSpan(contourLayer) /\ ColsSpan(contourLayer)

(***************************************************************************)
(* C30: the sequence returned by collectSamples is in non-decreasing order *)
(* of distAlong, the distance along the transect from the first endpoint,  *)
(* whatever the order of the four source datasets                          *)
(***************************************************************************)
C30_CollectedInTransectOrder ==
    \A i, j \in 1..Len(collected) :
        i < j => DistAlongLeq(collected[i], collected[j])

\* an interval of a later dataset was moved in front of a surface sample
\* that lies farther along the transect
C30_Witness ==
    \E i, j \in 1..Len(collected) :
        /\ i < j
        /\ collected[i].type # "SS"
        /\ collected[j].type = "SS"
        /\ ~DistAlongLeq(collected[j], collected[i])

=============================================================================
